---- MODULE Spec2Model ----
(***************************************************************************)
(* A model of the hume CLI text-to-speech pipeline: the settings cascade   *)
(* (Tts.resolveOpts), the request builder (Tts.synthesize,                 *)
(* calculateOutputOpts, calculateUtterance, Tts.maybeAddContext) and the   *)
(* streaming driver (Tts.synthesizeStreaming with withStdinAudioPlayer).   *)
(*                                                                         *)
(* Optional values.  A JavaScript value that may be null or undefined is   *)
(* a sequence of length at most one: Null is << >> and a present value v   *)
(* is << v >>.  A settings layer is a function from option names to such   *)
(* values; the model does not distinguish null from undefined, which the   *)
(* code never does either (withPriority tests both).                       *)
(***************************************************************************)
EXTENDS Integers, Sequences, FiniteSets, TLC

VARIABLES
    rawOpts,        \* the options of this invocation (the CLI layer)
    session,        \* the session config record: its tts section, apiKey, json, pretty
    globalConfig,   \* the global config record: its tts section, apiKey, json, pretty
    resolved,       \* the outcome of Tts.resolveOpts, Null before the call
    env,            \* the environment: HUME_API_KEY, or Null
    platform,       \* process.platform: "posix" or "win32"
    history,        \* the history store: Null, or the record last saved
    pc,             \* where Tts.synthesize stands
    opts,           \* the resolved options of the running call
    outputOpts,     \* the output plan of the running call
    tts,            \* the request being built, then sent
    hume,           \* the remote client of getSettings, or Null
    error,          \* the error Tts.synthesize threw, or Null
    remoteCalls,    \* the remote operations called so far, with their requests
    player,         \* the live-playback process of withStdinAudioPlayer
    playerWrites,   \* the buffers handed to writeAudio, in order
    received,       \* the chunks the streaming call has yielded so far
    firstGenerationId, \* the local of the chunk loop
    generationAudio,   \* generation id -> chunks, in insertion order
    files,          \* the calls of ensureDirAndWriteFile, in order
    response,       \* the result of hume.tts.synthesizeJson, Null before it
    played,         \* the calls of playAudioFile, in order, with their exit codes
    calls,          \* the invocations of the CLI that have ended so far
    before,         \* the stored history as the running call found it
    completed,      \* the ids of the last call that returned without throwing
    historyReads,   \* the calls of getLastSynthesis made by the running call
    reporterMode,   \* the reporter mode getSettings chose, Null before it
    lastGenFile,    \* the file last_generation.json as it is on disk
    lastSynthesisRead,  \* the outcome of the last getLastSynthesisFromHistory call
    stdin,          \* standard input: its chunks, how many were delivered, whether it ended
    content,        \* the local of readStdin: the text accumulated so far
    receivedAtExit  \* the number of chunks received when the player exited, Null before

cascadeVars == <<rawOpts, session, globalConfig, resolved>>
inputVars == <<rawOpts, session, globalConfig, env, platform>>
callVars == <<pc, opts, outputOpts, tts, hume, error>>
streamVars == <<player, playerWrites, received, firstGenerationId, generationAudio, files>>
bufferedVars == <<response, played>>
observerVars == <<calls, before, completed, historyReads, reporterMode, lastGenFile,
                  lastSynthesisRead, stdin, content, receivedAtExit>>
vars == <<rawOpts, session, globalConfig, resolved, env, platform, history, pc,
          opts, outputOpts, tts, hume, error, remoteCalls, player, playerWrites,
          received, firstGenerationId, generationAudio, files, response, played,
          calls, before, completed,
          historyReads,
          reporterMode,
          lastGenFile,
          lastSynthesisRead,
          stdin,
          content,
          receivedAtExit>>

Null == << >>
Some(v) == << v >>

-----------------------------------------------------------------------------
(* Option names *)

\* the keys resolved with osgd ("opts else session else global else defaults")
OsgdKeys ==
    {"description", "numGenerations", "outputDir", "prefix", "play", "format",
     "last", "lastIndex", "playCommand", "presetVoice", "speed",
     "trailingSilence", "streaming", "instantMode"}

VoiceKeys == {"voiceName", "voiceId"}

\* the keys resolved with od ("opts else defaults")
OdKeys == {"contextGenerationId", "outputFilePath"}

\* options that resolveOpts copies from the raw options untouched ({...opts})
PassKeys == {"text", "provider", "apiKey", "json", "pretty"}

Keys == OsgdKeys \cup VoiceKeys \cup OdKeys \cup PassKeys

BoolKeys == {"last", "presetVoice", "streaming", "instantMode", "json", "pretty"}
NumKeys == {"numGenerations", "lastIndex", "speed", "trailingSilence"}

\* JavaScript truthiness of an optional value of option `key`
Truthy(key, o) ==
    /\ o # Null
    /\ IF key \in BoolKeys THEN o[1] = TRUE
       ELSE IF key \in NumKeys THEN o[1] # 0
       ELSE o[1] # ""

Empty == [k \in Keys |-> Null]

defaults ==
    [k \in OsgdKeys \cup VoiceKeys \cup OdKeys |->
        CASE k = "description" -> Null
          [] k = "contextGenerationId" -> Null
          [] k = "voiceName" -> Null
          [] k = "voiceId" -> Null
          [] k = "numGenerations" -> Some(1)
          [] k = "outputFilePath" -> Some("")
          [] k = "outputDir" -> Some("./tts-audio")
          [] k = "prefix" -> Some("tts-")
          [] k = "play" -> Some("all")
          [] k = "format" -> Some("wav")
          [] k = "last" -> Some(FALSE)
          [] k = "lastIndex" -> Null
          [] k = "playCommand" -> Null
          [] k = "presetVoice" -> Some(FALSE)
          [] k = "speed" -> Null
          [] k = "trailingSilence" -> Null
          [] k = "streaming" -> Some(TRUE)
          [] k = "instantMode" -> Some(FALSE)]

-----------------------------------------------------------------------------
(* Tts.resolveOpts *)

\* the three pairs checked on the raw options, in the order of the code
ExclusivePairs ==
    << <<"voiceName", "voiceId">>,
       <<"outputFilePath", "numGenerations">>,
       <<"last", "contextGenerationId">> >>

mutuallyExclusive(o, a, b) == Truthy(a, o[a]) /\ Truthy(b, o[b])

\* null, or the item tagged with the priority of its layer
withPriority(priority, item) ==
    IF item = Null THEN Null ELSE Some([priority |-> priority, item |-> item])

\* osgd written with || instead of ??: a falsy value falls through
osgd_falsyFallsThrough(o, sess, glob, key) ==
    IF Truthy(key, o[key]) THEN [priority |-> 3, item |-> o[key]]
    ELSE IF Truthy(key, sess[key]) THEN [priority |-> 2, item |-> sess[key]]
    ELSE IF Truthy(key, glob[key]) THEN [priority |-> 1, item |-> glob[key]]
    ELSE [priority |-> 0, item |-> defaults[key]]

osgd(o, sess, glob, key) ==
    IF withPriority(3, o[key]) # Null THEN withPriority(3, o[key])[1]
    ELSE IF withPriority(2, sess[key]) # Null THEN withPriority(2, sess[key])[1]
    ELSE IF withPriority(1, glob[key]) # Null THEN withPriority(1, glob[key])[1]
    ELSE [priority |-> 0, item |-> defaults[key]]

\* od inheriting from the session and global config, as osgd does
od_inherits(o, key) == osgd(o, session, globalConfig, key)

od(o, key) ==
    IF withPriority(1, o[key]) # Null THEN withPriority(1, o[key])[1]
    ELSE [priority |-> 0, item |-> defaults[key]]

\* resolveVoice with the comparison turned round
resolveVoice_reversed(o, sess, glob) ==
    LET voiceName_ == osgd(o, sess, glob, "voiceName")
        voiceId_ == osgd(o, sess, glob, "voiceId")
    IN  IF voiceName_.priority < voiceId_.priority
        THEN [voiceName |-> voiceName_.item, voiceId |-> Null]
        ELSE [voiceName |-> Null, voiceId |-> voiceId_.item]

\* the voiceName_/voiceId_ comparison: both tagged records always exist, so
\* exactly one of the two items is dropped
resolveVoice(o, sess, glob) ==
    LET voiceName_ == osgd(o, sess, glob, "voiceName")
        voiceId_ == osgd(o, sess, glob, "voiceId")
    IN  IF voiceName_.priority > voiceId_.priority
        THEN [voiceName |-> voiceName_.item, voiceId |-> Null]
        ELSE [voiceName |-> Null, voiceId |-> voiceId_.item]

\* the first violated pair, as the two names the error message carries
exclusivityError(o) ==
    LET bad == {i \in 1..Len(ExclusivePairs) :
                  mutuallyExclusive(o, ExclusivePairs[i][1], ExclusivePairs[i][2])}
        first == CHOOSE i \in bad : \A j \in bad : i <= j
    IN  IF bad = {} THEN Null
        ELSE Some([kind |-> "mutuallyExclusive",
                   a |-> ExclusivePairs[first][1],
                   b |-> ExclusivePairs[first][2],
                   n |-> 0])

resolveOptsBody(glob, sess, o, checked) ==
    IF exclusivityError(checked) # Null
    THEN [ok |-> FALSE, error |-> exclusivityError(checked)[1]]
    ELSE [ok |-> TRUE,
          opts |-> [k \in Keys |->
                      IF k \in OsgdKeys THEN osgd(o, sess, glob, k).item
                      ELSE IF k \in OdKeys THEN od(o, k).item
                      ELSE IF k = "voiceName" THEN resolveVoice(o, sess, glob).voiceName
                      ELSE IF k = "voiceId" THEN resolveVoice(o, sess, glob).voiceId
                      ELSE o[k]]]

\* resolveOpts with the exclusivity check run on the merged layers
resolveOpts_checksCascade(glob, sess, o) ==
    resolveOptsBody(glob, sess, o,
        [k \in Keys |-> IF o[k] # Null THEN o[k]
                        ELSE IF sess[k] # Null THEN sess[k] ELSE glob[k]])

resolveOpts(glob, sess, o) == resolveOptsBody(glob, sess, o, o)


-----------------------------------------------------------------------------
(* Errors, requests and the other records of one Tts.synthesize call *)

\* an error: its kind, the two flags a mutual-exclusion message names, and
\* the number of generations a continuation message names
Error(kind) == [kind |-> kind, a |-> "", b |-> "", n |-> 0]
RangeError(n) == [kind |-> "lastIndexRange", a |-> "", b |-> "", n |-> n]

NoPlayer == [proc |-> "none", stdin |-> "none", code |-> Null, listening |-> FALSE]

NoOutputOpts ==
    [type |-> "none", numGenerations |-> 0, path |-> "", dir |-> "", prefix |-> "",
     format |-> ""]

-----------------------------------------------------------------------------
(* The history store: getLastSynthesisFromHistory and                      *)
(* saveLastSynthesisToHistory on the file last_generation.json.  A record  *)
(* of the model holds the ids; the timestamp, which is written and never   *)
(* read, is left out.                                                      *)

\* the file: absent, present but not readable, or present with a text, the
\* text a sequence of JSON tokens
NoFile == [state |-> "absent", text |-> << >>]
UnreadableFile == [state |-> "unreadable", text |-> << >>]
TextFile(text) == [state |-> "text", text |-> text]

\* JSON.stringify(generation)
JSONStringify(generation) == <<"{", "ids", ":", "[">> \o generation.ids \o <<"]", "}">>

\* JSON.parse(data): the value, or a SyntaxError
JSONParse(data) ==
    IF /\ Len(data) >= 6
       /\ SubSeq(data, 1, 4) = <<"{", "ids", ":", "[">>
       /\ SubSeq(data, Len(data) - 1, Len(data)) = <<"]", "}">>
    THEN [ok |-> TRUE, value |-> [ids |-> SubSeq(data, 5, Len(data) - 2)]]
    ELSE [ok |-> FALSE, value |-> [ids |-> << >>]]

\* readFile(lastGenPath, 'utf8') after ensureHumeDir(): the text, or an
\* error (ENOENT, EACCES)
readFile(file) ==
    IF file.state = "text" THEN [ok |-> TRUE, data |-> file.text]
    ELSE [ok |-> FALSE, data |-> << >>]

\* the outcome of a call before there has been one
NotCalled == [called |-> FALSE, threw |-> FALSE, value |-> Null]

\* getLastSynthesisFromHistory without its try/catch
getLastSynthesisFromHistory_noCatch(file) ==
    IF ~readFile(file).ok
    THEN [called |-> TRUE, threw |-> TRUE, value |-> Null]
    ELSE IF ~JSONParse(readFile(file).data).ok
    THEN [called |-> TRUE, threw |-> TRUE, value |-> Null]
    ELSE [called |-> TRUE, threw |-> FALSE,
          value |-> Some(JSONParse(readFile(file).data).value)]

\* getLastSynthesisFromHistory: the parsed file, or null from the catch
\* when the file cannot be read or parsed
getLastSynthesisFromHistory(file) ==
    IF ~readFile(file).ok
    THEN [called |-> TRUE, threw |-> FALSE, value |-> Null]
    ELSE IF ~JSONParse(readFile(file).data).ok
    THEN [called |-> TRUE, threw |-> FALSE, value |-> Null]
    ELSE [called |-> TRUE, threw |-> FALSE,
          value |-> Some(JSONParse(readFile(file).data).value)]

\* writeFile(lastGenPath, JSON.stringify(generation)) keeping the ids that
\* were stored before
saveLastSynthesisToHistory_merges(stored, generation) ==
    IF stored = Null THEN Some(generation)
    ELSE Some([ids |-> stored[1].ids \o generation.ids])

\* writeFile(lastGenPath, JSON.stringify(generation)): the stored record
\* after the call
saveLastSynthesisToHistory(stored, generation) == Some(generation)

\* the file of a store that holds the record `stored`: none, or the text
\* saveLastSynthesisToHistory wrote
StoredFile(stored) ==
    IF stored = Null THEN NoFile ELSE TextFile(JSONStringify(stored[1]))

\* standard input with nothing to deliver
NoStdin == [chunks |-> << >>, delivered |-> 0, ended |-> FALSE]

\* the state of the call-local variables before Tts.synthesize is entered
Idle ==
    /\ env = Null
    /\ platform = "posix"
    /\ history = Null
    /\ pc = "idle"
    /\ opts = Empty
    /\ outputOpts = NoOutputOpts
    /\ tts = Null
    /\ hume = Null
    /\ error = Null
    /\ remoteCalls = << >>
    /\ player = NoPlayer
    /\ playerWrites = << >>
    /\ received = << >>
    /\ firstGenerationId = Null
    /\ generationAudio = << >>
    /\ files = << >>
    /\ response = Null
    /\ played = << >>
    /\ calls = 0
    /\ before = history
    /\ completed = history
    /\ historyReads = 0
    /\ reporterMode = Null
    /\ lastGenFile = StoredFile(history)
    /\ lastSynthesisRead = NotCalled
    /\ stdin = NoStdin
    /\ content = ""
    /\ receivedAtExit = Null

-----------------------------------------------------------------------------
(* getSettings: the remote client *)

\* apiKey = globalConfig.apiKey ?? session.apiKey ?? env.HUME_API_KEY ?? opts.apiKey
settingsApiKey(o, sess, glob, e) ==
    IF glob["apiKey"] # Null THEN glob["apiKey"]
    ELSE IF sess["apiKey"] # Null THEN sess["apiKey"]
    ELSE IF e # Null THEN e
    ELSE o["apiKey"]

\* getSettings building a client whether or not a key was found
getSettingsHume_anonymous(o, sess, glob, e) ==
    IF settingsApiKey(o, sess, glob, e) # Null
    THEN Some([apiKey |-> settingsApiKey(o, sess, glob, e)[1]])
    ELSE Some([apiKey |-> ""])

\* hume = apiKey ? getHumeClient({apiKey, baseUrl}) : null
getSettingsHume(o, sess, glob, e) ==
    IF Truthy("apiKey", settingsApiKey(o, sess, glob, e))
    THEN Some([apiKey |-> settingsApiKey(o, sess, glob, e)[1]])
    ELSE Null

\* reporterMode: 'json' if opts.json || session.json || globalConfig.json;
\* otherwise 'pretty', which the else-if branch on opts.pretty ||
\* session.pretty sets again
getSettingsReporterMode(o, sess, glob) ==
    IF Truthy("json", o["json"]) \/ Truthy("json", sess["json"])
       \/ Truthy("json", glob["json"])
    THEN "json"
    ELSE IF Truthy("pretty", o["pretty"]) \/ Truthy("pretty", sess["pretty"])
    THEN "pretty"
    ELSE "pretty"

-----------------------------------------------------------------------------
(* calculateOutputOpts and calculateUtterance *)

\* calculateOutputOpts passing numGenerations through under a path plan
calculateOutputOpts_keepsCount(o) ==
    IF o["numGenerations"][1] > 1 /\ Truthy("outputFilePath", o["outputFilePath"])
    THEN [ok |-> FALSE, error |-> Error("numGenerationsWithOutputFilePath")]
    ELSE IF Truthy("outputFilePath", o["outputFilePath"])
    THEN [ok |-> TRUE,
          plan |-> [type |-> "path", numGenerations |-> o["numGenerations"][1],
                    path |-> o["outputFilePath"][1], dir |-> "", prefix |-> "",
                    format |-> ""]]
    ELSE IF ~Truthy("outputDir", o["outputDir"])
    THEN [ok |-> FALSE, error |-> Error("outputDirNotSet")]
    ELSE IF ~Truthy("prefix", o["prefix"])
    THEN [ok |-> FALSE, error |-> Error("prefixNotSet")]
    ELSE [ok |-> TRUE,
          plan |-> [type |-> "dir", numGenerations |-> o["numGenerations"][1],
                    path |-> "", dir |-> o["outputDir"][1],
                    prefix |-> o["prefix"][1], format |-> o["format"][1]]]

calculateOutputOpts(o) ==
    IF o["numGenerations"][1] > 1 /\ Truthy("outputFilePath", o["outputFilePath"])
    THEN [ok |-> FALSE, error |-> Error("numGenerationsWithOutputFilePath")]
    ELSE IF Truthy("outputFilePath", o["outputFilePath"])
    THEN [ok |-> TRUE,
          plan |-> [type |-> "path", numGenerations |-> 1,
                    path |-> o["outputFilePath"][1], dir |-> "", prefix |-> "",
                    format |-> ""]]
    ELSE IF ~Truthy("outputDir", o["outputDir"])
    THEN [ok |-> FALSE, error |-> Error("outputDirNotSet")]
    ELSE IF ~Truthy("prefix", o["prefix"])
    THEN [ok |-> FALSE, error |-> Error("prefixNotSet")]
    ELSE [ok |-> TRUE,
          plan |-> [type |-> "dir", numGenerations |-> o["numGenerations"][1],
                    path |-> "", dir |-> o["outputDir"][1],
                    prefix |-> o["prefix"][1], format |-> o["format"][1]]]

\* utteranceProvider with the legacy flag taking precedence
utteranceProvider_presetFirst(o) ==
    IF Truthy("presetVoice", o["presetVoice"]) THEN Some("HUME_AI")
    ELSE IF Truthy("provider", o["provider"]) THEN o["provider"]
    ELSE Null

\* the provider a voice reference is built with
utteranceProvider(o) ==
    IF Truthy("provider", o["provider"]) THEN o["provider"]
    ELSE IF Truthy("presetVoice", o["presetVoice"]) THEN Some("HUME_AI")
    ELSE Null

calculateUtterance(o) ==
    LET provider == utteranceProvider(o)
        tag == IF provider = Some("HUME_AI") THEN Some("HUME_AI") ELSE Null
    IN  [text |-> o["text"],
         voice |->
            IF Truthy("voiceName", o["voiceName"])
            THEN Some([name |-> o["voiceName"], id |-> Null, provider |-> tag])
            ELSE IF Truthy("voiceId", o["voiceId"])
            THEN Some([name |-> Null, id |-> o["voiceId"], provider |-> tag])
            ELSE Null,
         description |->
            IF Truthy("description", o["description"]) THEN o["description"] ELSE Null,
         speed |-> o["speed"],
         trailingSilence |-> o["trailingSilence"]]

\* the request Tts.synthesize builds before maybeAddContext
postedTts(o, plan) ==
    [utterances |-> << calculateUtterance(o) >>,
     numGenerations |-> plan.numGenerations,
     format |-> o["format"][1],
     context |-> Null,
     instantMode |-> Null,
     stripHeaders |-> Null]

-----------------------------------------------------------------------------
(* Tts.maybeAddContext *)

\* ids[i - 1] of a JavaScript array: the element, or undefined (Null)
ArrayAt(ids, i) == IF i \in 0..(Len(ids) - 1) THEN Some(ids[i + 1]) ELSE Null

\* maybeAddContext reading lastIndex as a 0-based index
maybeAddContext_zeroBased(o, lastSynthesis) ==
    IF Truthy("contextGenerationId", o["contextGenerationId"])
    THEN [ok |-> TRUE, context |-> Some([generationId |-> o["contextGenerationId"]])]
    ELSE IF ~Truthy("last", o["last"])
    THEN [ok |-> TRUE, context |-> Null]
    ELSE IF lastSynthesis = Null
    THEN [ok |-> FALSE, error |-> Error("noPreviousGeneration")]
    ELSE LET ids == lastSynthesis[1].ids
             nLastGenerations == Len(ids)
             lastIndex == o["lastIndex"]
         IN  IF nLastGenerations > 1 /\ lastIndex = Null
             THEN [ok |-> FALSE, error |-> RangeError(nLastGenerations)]
             ELSE IF lastIndex # Null /\ lastIndex[1] > nLastGenerations
             THEN [ok |-> FALSE, error |-> RangeError(nLastGenerations)]
             ELSE [ok |-> TRUE,
                   context |->
                     Some([generationId |->
                        ArrayAt(ids, IF lastIndex = Null THEN 0 ELSE lastIndex[1])])]

\* maybeAddContext looking at last before contextGenerationId
maybeAddContext_lastFirst(o, lastSynthesis) ==
    IF Truthy("last", o["last"])
    THEN IF lastSynthesis = Null
         THEN [ok |-> FALSE, error |-> Error("noPreviousGeneration")]
         ELSE LET ids == lastSynthesis[1].ids
                  nLastGenerations == Len(ids)
                  lastIndex == o["lastIndex"]
              IN  IF nLastGenerations > 1 /\ lastIndex = Null
                  THEN [ok |-> FALSE, error |-> RangeError(nLastGenerations)]
                  ELSE IF lastIndex # Null /\ lastIndex[1] > nLastGenerations
                  THEN [ok |-> FALSE, error |-> RangeError(nLastGenerations)]
                  ELSE [ok |-> TRUE,
                        context |->
                          Some([generationId |->
                             ArrayAt(ids, (IF lastIndex = Null THEN 1 ELSE lastIndex[1]) - 1)])]
    ELSE IF Truthy("contextGenerationId", o["contextGenerationId"])
    THEN [ok |-> TRUE, context |-> Some([generationId |-> o["contextGenerationId"]])]
    ELSE [ok |-> TRUE, context |-> Null]

\* maybeAddContext gets as far as `await this.getLastSynthesis()`: no
\* contextGenerationId made it return, and last is set
readsLastSynthesis(o) ==
    ~Truthy("contextGenerationId", o["contextGenerationId"]) /\ Truthy("last", o["last"])

\* the outcome of maybeAddContext on the resolved options and the stored
\* history: an error, or the context to put in the request (Null: none)
maybeAddContext(o, lastSynthesis) ==
    IF Truthy("contextGenerationId", o["contextGenerationId"])
    THEN [ok |-> TRUE, context |-> Some([generationId |-> o["contextGenerationId"]])]
    ELSE IF ~Truthy("last", o["last"])
    THEN [ok |-> TRUE, context |-> Null]
    ELSE IF lastSynthesis = Null
    THEN [ok |-> FALSE, error |-> Error("noPreviousGeneration")]
    ELSE LET ids == lastSynthesis[1].ids
             nLastGenerations == Len(ids)
             lastIndex == o["lastIndex"]
         IN  IF nLastGenerations > 1 /\ lastIndex = Null
             THEN [ok |-> FALSE, error |-> RangeError(nLastGenerations)]
             ELSE IF lastIndex # Null /\ lastIndex[1] > nLastGenerations
             THEN [ok |-> FALSE, error |-> RangeError(nLastGenerations)]
             ELSE [ok |-> TRUE,
                   context |->
                     Some([generationId |->
                        ArrayAt(ids, (IF lastIndex = Null THEN 1 ELSE lastIndex[1]) - 1)])]

-----------------------------------------------------------------------------
(* Tts.synthesize up to the remote call *)

Fail(e) ==
    /\ pc' = "failed"
    /\ error' = Some(e)

\* String.prototype.trim: the white space of the model's texts
IsWhiteSpace(c) == c \in {" ", "\n", "\t"}

RECURSIVE TrimStart(_)
TrimStart(s) ==
    IF Len(s) > 0 /\ IsWhiteSpace(SubSeq(s, 1, 1)) THEN TrimStart(SubSeq(s, 2, Len(s)))
    ELSE s

RECURSIVE TrimEnd(_)
TrimEnd(s) ==
    IF Len(s) > 0 /\ IsWhiteSpace(SubSeq(s, Len(s), Len(s)))
    THEN TrimEnd(SubSeq(s, 1, Len(s) - 1))
    ELSE s

Trim(s) == TrimEnd(TrimStart(s))

\* readStdin resolving with the content as it arrived
readStdinResolve_untrimmed(text) == text

\* readStdin, the 'end' listener: resolve(content.trim())
readStdinResolve(text) == Trim(text)

\* getSettings, resolveOpts, calculateOutputOpts, then either readStdin
\* (text '-') or calculateUtterance and the request record
SynthesizeStart ==
    /\ pc = "start"
    /\ hume' = getSettingsHume(rawOpts, session, globalConfig, env)
    /\ resolved' = Some(resolveOpts(globalConfig, session, rawOpts))
    /\ LET r == resolveOpts(globalConfig, session, rawOpts)
       IN  IF ~r.ok
           THEN Fail(r.error) /\ UNCHANGED <<opts, outputOpts, tts>>
           ELSE LET out == calculateOutputOpts(r.opts)
                IN  IF ~out.ok
                    THEN /\ Fail(out.error)
                         /\ opts' = r.opts
                         /\ UNCHANGED <<outputOpts, tts>>
                    ELSE IF r.opts["text"] = Some("-")
                    THEN /\ opts' = r.opts
                         /\ outputOpts' = out.plan
                         /\ pc' = "readStdin"
                         /\ UNCHANGED <<tts, error>>
                    ELSE /\ opts' = r.opts
                         /\ outputOpts' = out.plan
                         /\ tts' = Some(postedTts(r.opts, out.plan))
                         /\ pc' = "addContext"
                         /\ UNCHANGED error
    /\ reporterMode' = Some(getSettingsReporterMode(rawOpts, session, globalConfig))
    /\ UNCHANGED <<inputVars, history, remoteCalls, streamVars>>
    /\ UNCHANGED <<bufferedVars, calls, before, completed, historyReads, lastGenFile,
                   lastSynthesisRead,
                   stdin, content, receivedAtExit>>

\* readStdin, the 'data' listener: content += chunk
ReadStdinData ==
    /\ pc = "readStdin"
    /\ stdin.delivered < Len(stdin.chunks)
    /\ content' = content \o stdin.chunks[stdin.delivered + 1]
    /\ stdin' = [stdin EXCEPT !.delivered = @ + 1]
    /\ UNCHANGED <<inputVars, resolved, history, callVars, remoteCalls, streamVars,
                   bufferedVars, calls, before, completed, historyReads, reporterMode,
                   lastGenFile, lastSynthesisRead, receivedAtExit>>

\* readStdin, the 'end' listener, then calculateUtterance({...opts, text})
\* and the request record
ReadStdinEnd ==
    /\ pc = "readStdin"
    /\ stdin.delivered = Len(stdin.chunks)
    /\ stdin' = [stdin EXCEPT !.ended = TRUE]
    /\ tts' = Some(postedTts([opts EXCEPT !["text"] = Some(readStdinResolve(content))],
                             outputOpts))
    /\ pc' = "addContext"
    /\ UNCHANGED <<inputVars, resolved, history, opts, outputOpts, hume, error,
                   remoteCalls, streamVars, bufferedVars, calls, before, completed,
                   historyReads, reporterMode, lastGenFile, lastSynthesisRead, content,
                   receivedAtExit>>

\* readStdin, the 'error' listener: the promise rejects
ReadStdinError ==
    /\ pc = "readStdin"
    /\ Fail(Error("stdin"))
    /\ UNCHANGED <<inputVars, resolved, history, opts, outputOpts, tts, hume,
                   remoteCalls, streamVars, bufferedVars, observerVars>>

\* await this.maybeAddContext(opts, tts)
MaybeAddContext ==
    /\ pc = "addContext"
    /\ LET r == maybeAddContext(opts, getLastSynthesisFromHistory(lastGenFile).value)
       IN  IF ~r.ok
           THEN Fail(r.error) /\ UNCHANGED tts
           ELSE /\ tts' = Some([tts[1] EXCEPT !.context = r.context])
                /\ pc' = "validate"
                /\ UNCHANGED error
    /\ historyReads' = IF readsLastSynthesis(opts) THEN historyReads + 1 ELSE historyReads
    /\ UNCHANGED <<inputVars, resolved, history, opts, outputOpts, hume, remoteCalls,
                   streamVars>>
    /\ UNCHANGED <<bufferedVars, calls, before, completed, reporterMode, lastGenFile,
                   lastSynthesisRead,
                   stdin, content, receivedAtExit>>

\* the instant_mode checks without the check of the voice or context
instantModeError_noVoiceCheck(o, plan, request) ==
    IF ~Truthy("instantMode", o["instantMode"]) THEN Null
    ELSE IF ~Truthy("streaming", o["streaming"]) THEN Some(Error("instantNeedsStreaming"))
    ELSE IF plan.numGenerations # 1 THEN Some(Error("instantNeedsOneGeneration"))
    ELSE Null

\* the instant_mode checks, in the order of the code; Null when they pass
instantModeError(o, plan, request) ==
    IF ~Truthy("instantMode", o["instantMode"]) THEN Null
    ELSE IF ~Truthy("streaming", o["streaming"]) THEN Some(Error("instantNeedsStreaming"))
    ELSE IF plan.numGenerations # 1 THEN Some(Error("instantNeedsOneGeneration"))
    ELSE IF request.utterances[1].voice = Null /\ request.context = Null
    THEN Some(Error("instantNeedsVoice"))
    ELSE Null

\* the instant_mode validation, the check of the client and the choice of
\* the driver
ValidateAndDispatch ==
    /\ pc = "validate"
    /\ IF instantModeError(opts, outputOpts, tts[1]) # Null
       THEN Fail(instantModeError(opts, outputOpts, tts[1])[1]) /\ UNCHANGED tts
       ELSE /\ tts' = IF Truthy("instantMode", opts["instantMode"])
                      THEN Some([tts[1] EXCEPT !.instantMode = Some(TRUE)])
                      ELSE tts
            /\ IF hume = Null
               THEN Fail(Error("ApiKeyNotSetError"))
               ELSE /\ pc' = IF Truthy("streaming", opts["streaming"])
                             THEN "streaming" ELSE "buffered"
                    /\ UNCHANGED error
    /\ UNCHANGED <<inputVars, resolved, history, opts, outputOpts, hume, remoteCalls,
                   streamVars>>
    /\ UNCHANGED <<bufferedVars, observerVars>>

-----------------------------------------------------------------------------
(* Audio data *)

\* Buffer.from(audio, 'base64') on the payloads of the model
Base64Decode(audio) ==
    CASE audio = "" -> << >>
      [] audio = "YQ==" -> << 97 >>
      [] audio = "Yg==" -> << 98 >>
      [] audio = "YWI=" -> << 97, 98 >>

\* Buffer.concat(audioChunks)
RECURSIVE BufferConcat(_)
BufferConcat(chunks) ==
    IF chunks = << >> THEN << >> ELSE Head(chunks) \o BufferConcat(Tail(chunks))

\* path.normalize on the paths of the model: a leading "./" is dropped
PathNormalize(path) ==
    IF Len(path) >= 2 /\ SubSeq(path, 1, 2) = "./"
    THEN SubSeq(path, 3, Len(path))
    ELSE path

\* path.join(dir, name): the two joined by "/", then normalized
PathJoin(dir, name) == PathNormalize(dir \o "/" \o name)

-----------------------------------------------------------------------------
(* withStdinAudioPlayer: the player command *)

\* customCommand ? parseCustomCommand(customCommand) : findDefaultAudioPlayer();
\* the first default player is powershell on win32 (no stdin arguments) and
\* ffplay elsewhere; a custom command always has stdin arguments
stdinPlayerCommand(customCommand, os) ==
    IF Truthy("playCommand", customCommand)
    THEN [cmd |-> customCommand[1], argsWithStdin |-> TRUE]
    ELSE IF os = "win32"
    THEN [cmd |-> "powershell", argsWithStdin |-> FALSE]
    ELSE [cmd |-> "ffplay", argsWithStdin |-> TRUE]

-----------------------------------------------------------------------------
(* Tts.synthesizeStreaming *)

\* generationAudio.has(id)
HasGeneration(audioMap, id) == \E i \in 1..Len(audioMap) : audioMap[i].id = id

\* PushAudio putting the new buffer in front of the earlier ones
PushAudio_unshift(audioMap, id, buffer) ==
    IF HasGeneration(audioMap, id)
    THEN [i \in 1..Len(audioMap) |->
            IF audioMap[i].id = id
            THEN [audioMap[i] EXCEPT !.chunks = << buffer >> \o @]
            ELSE audioMap[i]]
    ELSE Append(audioMap, [id |-> id, chunks |-> << buffer >>])

\* generationAudio.get(id).push(buffer), after a set(id, []) for a new id
PushAudio(audioMap, id, buffer) ==
    IF HasGeneration(audioMap, id)
    THEN [i \in 1..Len(audioMap) |->
            IF audioMap[i].id = id
            THEN [audioMap[i] EXCEPT !.chunks = Append(@, buffer)]
            ELSE audioMap[i]]
    ELSE Append(audioMap, [id |-> id, chunks |-> << buffer >>])

\* goChunk without the test for an empty payload
goChunk_noEmptyCheck(loc, chunk, play) ==
    LET first == IF loc.firstGenerationId = Null
                 THEN Some(chunk.generationId) ELSE loc.firstGenerationId
        audioBuffer == IF chunk.audio = Null THEN << >> ELSE Base64Decode(chunk.audio[1])
        stored == PushAudio(loc.generationAudio, chunk.generationId, audioBuffer)
    IN  [firstGenerationId |-> first,
         generationAudio |-> stored,
         playerWrites |->
            IF play = "off" \/ (play = "first" /\ Some(chunk.generationId) # first)
            THEN loc.playerWrites
            ELSE Append(loc.playerWrites, audioBuffer)]

\* goChunk taking the first generation id from the first chunk with audio
goChunk_firstWithAudio(loc, chunk, play) ==
    IF chunk.audio = Null \/ Len(chunk.audio[1]) = 0
    THEN loc
    ELSE LET first == IF loc.firstGenerationId = Null
                      THEN Some(chunk.generationId) ELSE loc.firstGenerationId
             audioBuffer == Base64Decode(chunk.audio[1])
             stored == PushAudio(loc.generationAudio, chunk.generationId, audioBuffer)
         IN  [firstGenerationId |-> first,
              generationAudio |-> stored,
              playerWrites |->
                 IF play = "off" \/ (play = "first" /\ Some(chunk.generationId) # first)
                 THEN loc.playerWrites
                 ELSE Append(loc.playerWrites, audioBuffer)]

\* one turn of the chunk loop of go on the locals of the driver
goChunk(loc, chunk, play) ==
    LET first == IF loc.firstGenerationId = Null
                 THEN Some(chunk.generationId) ELSE loc.firstGenerationId
    IN  IF chunk.audio = Null \/ Len(chunk.audio[1]) = 0
        THEN [loc EXCEPT !.firstGenerationId = first]
        ELSE LET audioBuffer == Base64Decode(chunk.audio[1])
                 stored == PushAudio(loc.generationAudio, chunk.generationId, audioBuffer)
             IN  IF play = "first" /\ Some(chunk.generationId) # first
                 THEN [firstGenerationId |-> first,
                       generationAudio |-> stored,
                       playerWrites |-> loc.playerWrites]
                 ELSE [firstGenerationId |-> first,
                       generationAudio |-> stored,
                       playerWrites |->
                          IF play = "off" THEN loc.playerWrites
                          ELSE Append(loc.playerWrites, audioBuffer)]

\* StreamingBegin without tts.stripHeaders = true
StreamingBegin_keepsHeaders ==
    /\ pc = "streaming"
    /\ tts' = tts
    /\ IF opts["play"][1] # "off"
       THEN LET command == stdinPlayerCommand(opts["playCommand"], platform)
            IN  IF ~command.argsWithStdin
                THEN Fail(Error("playerWithoutStdin")) /\ UNCHANGED player
                ELSE /\ player' = [proc |-> "running", stdin |-> "open",
                                   code |-> Null, listening |-> FALSE]
                     /\ pc' = "go"
                     /\ UNCHANGED error
       ELSE /\ pc' = "go"
            /\ UNCHANGED <<player, error>>
    /\ UNCHANGED <<inputVars, resolved, history, opts, outputOpts, hume, remoteCalls,
                   playerWrites, received, firstGenerationId, generationAudio, files>>
    /\ UNCHANGED <<bufferedVars, observerVars>>

\* tts.stripHeaders = true, then withStdinAudioPlayer up to the spawn when
\* play is not 'off'
StreamingBegin ==
    /\ pc = "streaming"
    /\ tts' = Some([tts[1] EXCEPT !.stripHeaders = Some(TRUE)])
    /\ IF opts["play"][1] # "off"
       THEN LET command == stdinPlayerCommand(opts["playCommand"], platform)
            IN  IF ~command.argsWithStdin
                THEN Fail(Error("playerWithoutStdin")) /\ UNCHANGED player
                ELSE /\ player' = [proc |-> "running", stdin |-> "open",
                                   code |-> Null, listening |-> FALSE]
                     /\ pc' = "go"
                     /\ UNCHANGED error
       ELSE /\ pc' = "go"
            /\ UNCHANGED <<player, error>>
    /\ UNCHANGED <<inputVars, resolved, history, opts, outputOpts, hume, remoteCalls,
                   playerWrites, received, firstGenerationId, generationAudio, files>>
    /\ UNCHANGED <<bufferedVars, observerVars>>

\* await hume.tts.synthesizeJsonStreaming(tts): the call is made and either
\* yields the chunk stream or rejects
RemoteStreamingCall ==
    /\ pc = "go"
    /\ remoteCalls' = Append(remoteCalls,
                             [op |-> "synthesizeJsonStreaming", request |-> tts[1]])
    /\ \/ pc' = "stream" /\ UNCHANGED error
       \/ Fail(Error("remote"))
    /\ UNCHANGED <<inputVars, resolved, history, opts, outputOpts, tts, hume, streamVars>>
    /\ UNCHANGED <<bufferedVars, observerVars>>

Generations == {"gen_1", "gen_2"}
Payloads == {Null, Some(""), Some("YQ=="), Some("Yg==")}
MaxChunks == 3

\* the stream yields a chunk and the loop body runs on it
StreamChunk ==
    /\ pc = "stream"
    /\ Len(received) < MaxChunks
    /\ \E g \in Generations, a \in Payloads :
         LET chunk == [generationId |-> g, audio |-> a]
             loc == goChunk([firstGenerationId |-> firstGenerationId,
                             generationAudio |-> generationAudio,
                             playerWrites |-> playerWrites],
                            chunk, opts["play"][1])
         IN  /\ received' = Append(received, chunk)
             /\ firstGenerationId' = loc.firstGenerationId
             /\ generationAudio' = loc.generationAudio
             /\ playerWrites' = loc.playerWrites
    /\ UNCHANGED <<inputVars, resolved, history, callVars, remoteCalls, player, files>>
    /\ UNCHANGED <<bufferedVars, observerVars>>

\* StreamThrow recording the ids received so far before it rethrows
StreamThrow_savesPartial ==
    /\ pc = "stream"
    /\ Fail(Error("remote"))
    /\ history' = Some([ids |-> [i \in 1..Len(generationAudio) |-> generationAudio[i].id]])
    /\ lastGenFile' = StoredFile(history')
    /\ UNCHANGED <<inputVars, resolved, opts, outputOpts, tts, hume,
                   remoteCalls, streamVars, bufferedVars, calls, before, completed,
                   historyReads, reporterMode, lastSynthesisRead,
                   stdin, content, receivedAtExit>>

\* the stream throws part-way: go rejects, and withStdinAudioPlayer, which
\* has no handler round `await f(...)`, rejects with it
StreamThrow ==
    /\ pc = "stream"
    /\ Fail(Error("remote"))
    /\ UNCHANGED <<inputVars, resolved, history, opts, outputOpts, tts, hume,
                   remoteCalls, streamVars>>
    /\ UNCHANGED <<bufferedVars, observerVars>>

\* the stream closes: go returns; with a player, proc.stdin.end() and the
\* 'close' and 'error' listeners are attached
StreamEnd ==
    /\ pc = "stream"
    /\ IF player.proc = "none"
       THEN pc' = "writeFiles" /\ UNCHANGED player
       ELSE /\ player' = [player EXCEPT !.stdin = "closed", !.listening = TRUE]
            /\ pc' = "awaitPlayer"
    /\ UNCHANGED <<inputVars, resolved, history, opts, outputOpts, tts, hume, error,
                   remoteCalls, playerWrites, received, firstGenerationId,
                   generationAudio, files>>
    /\ UNCHANGED <<bufferedVars, observerVars>>

ExitCodes == {0, 1}

\* the code of a process that could not be started (the 'error' event)
SpawnFailed == -1

\* the player process exits.  With the listeners attached its 'close' event
\* settles withStdinAudioPlayer; before that nobody hears the event.
PlayerExits ==
    /\ player.proc = "running"
    /\ pc \in {"go", "stream", "awaitPlayer"}
    /\ \E code \in ExitCodes :
         /\ player' = [player EXCEPT !.proc = "exited", !.stdin = "closed",
                                     !.code = Some(code)]
         /\ IF player.listening
            THEN IF code = 0
                 THEN pc' = "writeFiles" /\ UNCHANGED error
                 ELSE Fail(Error("playerExitCode"))
            ELSE UNCHANGED <<pc, error>>
    /\ UNCHANGED <<inputVars, resolved, history, opts, outputOpts, tts, hume,
                   remoteCalls, playerWrites, received, firstGenerationId,
                   generationAudio, files>>
    /\ receivedAtExit' = Some(Len(received))
    /\ UNCHANGED <<bufferedVars, calls, before, completed, historyReads, reporterMode,
                   lastGenFile, lastSynthesisRead, stdin, content>>

\* the player could not be started: the child process emits 'error' on the
\* tick after spawn, while `await f(...)` is pending and no listener is
\* attached yet.  An 'error' event without a listener is thrown as an
\* uncaught exception, which ends the Node process: synthesize neither
\* returns nor throws.
PlayerSpawnError ==
    /\ player.proc = "running"
    /\ pc \in {"go", "stream"}
    /\ received = << >>
    /\ player' = [player EXCEPT !.proc = "failed", !.stdin = "closed",
                                !.code = Some(SpawnFailed)]
    /\ pc' = "crashed"
    /\ error' = Some(Error("uncaughtPlayerSpawn"))
    /\ UNCHANGED <<inputVars, resolved, history, opts, outputOpts, tts, hume,
                   remoteCalls, playerWrites, received, firstGenerationId,
                   generationAudio, files>>
    /\ UNCHANGED <<bufferedVars, observerVars>>

\* the path of the file of one generation
generationPath(plan, generationId) ==
    IF plan.type = "path" THEN plan.path
    ELSE PathJoin(plan.dir, plan.prefix \o generationId \o "." \o plan.format)

\* one turn of the loop over generationAudio.entries()
WriteGenerationFile ==
    /\ pc = "writeFiles"
    /\ Len(files) < Len(generationAudio)
    /\ LET entry == generationAudio[Len(files) + 1]
       IN  files' = Append(files,
                           [generationId |-> entry.id,
                            path |-> generationPath(outputOpts, entry.id),
                            data |-> BufferConcat(entry.chunks)])
    /\ UNCHANGED <<inputVars, resolved, history, callVars, remoteCalls, player,
                   playerWrites, received, firstGenerationId, generationAudio>>
    /\ UNCHANGED <<bufferedVars, observerVars>>

\* saveLastSynthesis({ids: Array.from(generationAudio.keys()), ...})
SaveStreamedSynthesis ==
    /\ pc = "writeFiles"
    /\ Len(files) = Len(generationAudio)
    /\ history' = saveLastSynthesisToHistory(history,
                       [ids |-> [i \in 1..Len(generationAudio) |-> generationAudio[i].id]])
    /\ lastGenFile' = StoredFile(history')
    /\ pc' = "done"
    /\ UNCHANGED <<inputVars, resolved, opts, outputOpts, tts, hume, error, remoteCalls,
                   streamVars>>
    /\ UNCHANGED <<bufferedVars, calls, before, completed, historyReads, reporterMode,
                   lastSynthesisRead,
                   stdin, content, receivedAtExit>>

-----------------------------------------------------------------------------
(* Tts.synthesizeBuffered *)

MaxGenerations == 2

\* the generation ids a stored history lists, in order
HistoryIds == <<"gen_1", "gen_2", "gen_3", "gen_4">>

\* the generation ids the remote service answers with
ResponseIds == {HistoryIds[i] : i \in 1..MaxGenerations}

\* the complete base64 audio of a returned generation
ResponseAudio == {"YQ==", "YWI="}

\* result.generations: 1..MaxGenerations generations with distinct ids, in
\* any order
Responses ==
    UNION {{r \in [1..n -> [generationId : ResponseIds, audio : ResponseAudio]] :
              \A i, j \in 1..n : r[i].generationId = r[j].generationId => i = j} :
           n \in 1..MaxGenerations}

\* await hume.tts.synthesizeJson(tts): the call is made and either resolves
\* with the generations or rejects
RemoteBufferedCall ==
    /\ pc = "buffered"
    /\ remoteCalls' = Append(remoteCalls, [op |-> "synthesizeJson", request |-> tts[1]])
    /\ \/ \E r \in Responses :
             /\ response' = Some(r)
             /\ pc' = "bufferedCalled"
             /\ UNCHANGED error
       \/ Fail(Error("remote")) /\ UNCHANGED response
    /\ UNCHANGED <<inputVars, resolved, history, opts, outputOpts, tts, hume,
                   streamVars, played, observerVars>>

\* saveLastSynthesis({ids: result.generations.map(g => g.generationId), ...}),
\* still inside the spinner of the remote call
SaveBufferedSynthesis ==
    /\ pc = "bufferedCalled"
    /\ history' = saveLastSynthesisToHistory(history,
                       [ids |-> [i \in 1..Len(response[1]) |-> response[1][i].generationId]])
    /\ lastGenFile' = StoredFile(history')
    /\ pc' = "bufferedWrite"
    /\ UNCHANGED <<inputVars, resolved, opts, outputOpts, tts, hume, error, remoteCalls,
                   streamVars, bufferedVars, calls, before, completed, historyReads,
                   reporterMode, lastSynthesisRead,
                   stdin, content, receivedAtExit>>

\* the file writeFiles writes for one generation under the plan
writtenFile(plan, generation) ==
    [generationId |-> generation.generationId,
     path |-> generationPath(plan, generation.generationId),
     data |-> Base64Decode(generation.audio)]

\* writeFiles returning after the file of the first generation
WriteBufferedFile_firstOnly ==
    /\ pc = "bufferedWrite"
    /\ Len(files) < Len(response[1])
    /\ IF outputOpts.type = "path" /\ Len(response[1]) # 1
       THEN Fail(Error("assertion")) /\ UNCHANGED files
       ELSE /\ files' = Append(files, writtenFile(outputOpts, response[1][Len(files) + 1]))
            /\ pc' = "play"
            /\ UNCHANGED error
    /\ UNCHANGED <<inputVars, resolved, history, opts, outputOpts, tts, hume, remoteCalls,
                   player, playerWrites, received, firstGenerationId, generationAudio,
                   bufferedVars, observerVars>>

\* writeFiles, one ensureDirAndWriteFile at a time; the path plan asserts a
\* single generation
WriteBufferedFile ==
    /\ pc = "bufferedWrite"
    /\ Len(files) < Len(response[1])
    /\ IF outputOpts.type = "path" /\ Len(response[1]) # 1
       THEN Fail(Error("assertion")) /\ UNCHANGED files
       ELSE /\ files' = Append(files, writtenFile(outputOpts, response[1][Len(files) + 1]))
            /\ pc' = IF Len(files) + 1 = Len(response[1]) THEN "play" ELSE pc
            /\ UNCHANGED error
    /\ UNCHANGED <<inputVars, resolved, history, opts, outputOpts, tts, hume, remoteCalls,
                   player, playerWrites, received, firstGenerationId, generationAudio,
                   bufferedVars, observerVars>>

\* playAudios playing every written file unless play is 'off'
playCount_firstPlaysAll(play, written) ==
    IF play = "off" THEN 0 ELSE Len(written)

\* the number of files playAudios plays under a play option
playCount(play, written) ==
    IF play = "off" THEN 0 ELSE IF play = "first" THEN 1 ELSE Len(written)

\* playAudios between two files: with a file left to play, playAudioFile
\* spawns the player on it and attaches its 'close' and 'error' listeners;
\* with none left the driver returns
PlayAudios ==
    /\ pc = "play"
    /\ IF Len(played) = playCount(opts["play"][1], files)
       THEN pc' = "done" /\ UNCHANGED played
       ELSE /\ played' = Append(played, [path |-> files[Len(played) + 1].path,
                                         code |-> Null])
            /\ pc' = "playing"
    /\ UNCHANGED <<inputVars, resolved, history, opts, outputOpts, tts, hume, error,
                   remoteCalls, streamVars, response, observerVars>>

\* playAudioFile, the 'close' listener: the player has exited; code 0
\* resolves and playAudios goes on, any other code rejects
PlayAudioFileClose ==
    /\ pc = "playing"
    /\ \E code \in ExitCodes :
         /\ played' = [played EXCEPT ![Len(played)].code = Some(code)]
         /\ IF code = 0 THEN pc' = "play" /\ UNCHANGED error
            ELSE Fail(Error("playerExitCode"))
    /\ UNCHANGED <<inputVars, resolved, history, opts, outputOpts, tts, hume, remoteCalls,
                   streamVars, response, observerVars>>

\* playAudioFile, the 'error' listener: the player could not be started
PlayAudioFileError ==
    /\ pc = "playing"
    /\ played' = [played EXCEPT ![Len(played)].code = Some(SpawnFailed)]
    /\ Fail(Error("playerSpawn"))
    /\ UNCHANGED <<inputVars, resolved, history, opts, outputOpts, tts, hume, remoteCalls,
                   streamVars, response, observerVars>>

-----------------------------------------------------------------------------
(* The request builder: one Tts.synthesize call from its entry to the      *)
(* remote call, for options, layers and histories drawn from small sets.   *)

MaxHistory == 2

Histories ==
    {Null} \cup {Some([ids |-> SubSeq(HistoryIds, 1, n)]) : n \in 0..MaxHistory}

LastIndexes == {Null} \cup {Some(i) : i \in -1..(MaxHistory + 1)}

\* the command line of the model: a text and the given options
CommandLine(given) ==
    [k \in Keys |-> IF k \in DOMAIN given THEN given[k]
                    ELSE IF k = "text" THEN Some("Hello world") ELSE Null]

With(k, v) == [Empty EXCEPT ![k] = v]

RequestSessions ==
    {Empty, With("last", Some(TRUE)), With("numGenerations", Some(2)),
     With("instantMode", Some(TRUE))}

RequestGlobals == {Empty, With("voiceId", Some("voice_id_1")), With("last", Some(TRUE))}

InitRequest ==
    /\ \E st \in {Null, Some(FALSE)}, im \in {Null, Some(TRUE)}, ng \in {Null, Some(2)},
          vn \in {Null, Some("narrator")}, la \in {Null, Some(TRUE)}, li \in LastIndexes,
          cx \in {Null, Some("ctx_1")}, ofp \in {Null, Some("out.wav")},
          key \in {Null, Some("key")} :
            rawOpts = CommandLine([streaming |-> st, instantMode |-> im,
                                   numGenerations |-> ng, voiceName |-> vn,
                                   last |-> la, lastIndex |-> li,
                                   contextGenerationId |-> cx, outputFilePath |-> ofp,
                                   apiKey |-> key])
    /\ session \in RequestSessions
    /\ globalConfig \in RequestGlobals
    /\ env = Null
    /\ platform \in {"posix", "win32"}
    /\ history \in Histories
    /\ resolved = Null
    /\ pc = "start"
    /\ opts = Empty
    /\ outputOpts = NoOutputOpts
    /\ tts = Null
    /\ hume = Null
    /\ error = Null
    /\ remoteCalls = << >>
    /\ player = NoPlayer
    /\ playerWrites = << >>
    /\ received = << >>
    /\ firstGenerationId = Null
    /\ generationAudio = << >>
    /\ files = << >>
    /\ response = Null
    /\ played = << >>
    /\ calls = 0
    /\ before = history
    /\ completed = history
    /\ historyReads = 0
    /\ reporterMode = Null
    /\ lastGenFile = StoredFile(history)
    /\ lastSynthesisRead = NotCalled
    /\ stdin = NoStdin
    /\ content = ""
    /\ receivedAtExit = Null

NextRequest ==
    \/ SynthesizeStart
    \/ MaybeAddContext
    \/ ValidateAndDispatch
    \/ StreamingBegin
    \/ RemoteStreamingCall
    \/ RemoteBufferedCall

SpecRequest == InitRequest /\ [][NextRequest]_vars

-----------------------------------------------------------------------------
(* The streaming driver: one streaming Tts.synthesize call, the remote     *)
(* service yielding any stream of at most MaxChunks chunks.                *)

InitStreaming ==
    /\ \E pl \in {Null, Some("first"), Some("off")}, ofp \in {Null, Some("out.wav")},
          dir \in {Null, Some("out")} :
            rawOpts = CommandLine([play |-> pl, outputFilePath |-> ofp,
                                   outputDir |-> dir, apiKey |-> Some("key")])
    /\ session = Empty
    /\ globalConfig = Empty
    /\ env = Null
    /\ platform \in {"posix", "win32"}
    /\ history = Null
    /\ resolved = Null
    /\ pc = "start"
    /\ opts = Empty
    /\ outputOpts = NoOutputOpts
    /\ tts = Null
    /\ hume = Null
    /\ error = Null
    /\ remoteCalls = << >>
    /\ player = NoPlayer
    /\ playerWrites = << >>
    /\ received = << >>
    /\ firstGenerationId = Null
    /\ generationAudio = << >>
    /\ files = << >>
    /\ response = Null
    /\ played = << >>
    /\ calls = 0
    /\ before = history
    /\ completed = history
    /\ historyReads = 0
    /\ reporterMode = Null
    /\ lastGenFile = StoredFile(history)
    /\ lastSynthesisRead = NotCalled
    /\ stdin = NoStdin
    /\ content = ""
    /\ receivedAtExit = Null

NextStreaming ==
    \/ SynthesizeStart
    \/ MaybeAddContext
    \/ ValidateAndDispatch
    \/ StreamingBegin
    \/ RemoteStreamingCall
    \/ StreamChunk
    \/ StreamThrow
    \/ StreamEnd
    \/ PlayerExits
    \/ PlayerSpawnError
    \/ WriteGenerationFile
    \/ SaveStreamedSynthesis

SpecStreaming == InitStreaming /\ [][NextStreaming]_vars


-----------------------------------------------------------------------------
(* The buffered driver: one buffered Tts.synthesize call, the remote        *)
(* service answering with any list of 1..MaxGenerations generations.       *)

InitBuffered ==
    /\ \E pl \in {Null, Some("first"), Some("off")}, ofp \in {Null, Some("out.wav")},
          ng \in {Null, Some(2)}, fmt \in {Null, Some("pcm")} :
            rawOpts = CommandLine([streaming |-> Some(FALSE), play |-> pl,
                                   outputFilePath |-> ofp, numGenerations |-> ng,
                                   format |-> fmt, apiKey |-> Some("key")])
    /\ session = Empty
    /\ globalConfig \in {Empty, With("outputDir", Some("out"))}
    /\ env = Null
    /\ platform \in {"posix", "win32"}
    /\ history \in Histories
    /\ resolved = Null
    /\ pc = "start"
    /\ opts = Empty
    /\ outputOpts = NoOutputOpts
    /\ tts = Null
    /\ hume = Null
    /\ error = Null
    /\ remoteCalls = << >>
    /\ player = NoPlayer
    /\ playerWrites = << >>
    /\ received = << >>
    /\ firstGenerationId = Null
    /\ generationAudio = << >>
    /\ files = << >>
    /\ response = Null
    /\ played = << >>
    /\ calls = 0
    /\ before = history
    /\ completed = history
    /\ historyReads = 0
    /\ reporterMode = Null
    /\ lastGenFile = StoredFile(history)
    /\ lastSynthesisRead = NotCalled
    /\ stdin = NoStdin
    /\ content = ""
    /\ receivedAtExit = Null

NextBuffered ==
    \/ SynthesizeStart
    \/ MaybeAddContext
    \/ ValidateAndDispatch
    \/ RemoteBufferedCall
    \/ SaveBufferedSynthesis
    \/ WriteBufferedFile
    \/ PlayAudios
    \/ PlayAudioFileClose
    \/ PlayAudioFileError

SpecBuffered == InitBuffered /\ [][NextBuffered]_vars

-----------------------------------------------------------------------------
(* Both drivers: one Tts.synthesize call, streaming or buffered, started   *)
(* with any stored history.                                                *)

InitDrivers ==
    /\ \E st \in {Null, Some(TRUE), Some(FALSE)}, pl \in {Null, Some("off")} :
            rawOpts = CommandLine([streaming |-> st, play |-> pl, apiKey |-> Some("key")])
    /\ session \in {Empty, With("streaming", Some(FALSE))}
    /\ globalConfig = Empty
    /\ env = Null
    /\ platform = "posix"
    /\ history \in Histories
    /\ resolved = Null
    /\ pc = "start"
    /\ opts = Empty
    /\ outputOpts = NoOutputOpts
    /\ tts = Null
    /\ hume = Null
    /\ error = Null
    /\ remoteCalls = << >>
    /\ player = NoPlayer
    /\ playerWrites = << >>
    /\ received = << >>
    /\ firstGenerationId = Null
    /\ generationAudio = << >>
    /\ files = << >>
    /\ response = Null
    /\ played = << >>
    /\ calls = 0
    /\ before = history
    /\ completed = history
    /\ historyReads = 0
    /\ reporterMode = Null
    /\ lastGenFile = StoredFile(history)
    /\ lastSynthesisRead = NotCalled
    /\ stdin = NoStdin
    /\ content = ""
    /\ receivedAtExit = Null

NextDrivers ==
    \/ SynthesizeStart
    \/ MaybeAddContext
    \/ ValidateAndDispatch
    \/ StreamingBegin
    \/ RemoteStreamingCall
    \/ StreamChunk
    \/ StreamThrow
    \/ StreamEnd
    \/ PlayerExits
    \/ PlayerSpawnError
    \/ WriteGenerationFile
    \/ SaveStreamedSynthesis
    \/ RemoteBufferedCall
    \/ SaveBufferedSynthesis
    \/ WriteBufferedFile
    \/ PlayAudios
    \/ PlayAudioFileClose
    \/ PlayAudioFileError

SpecDrivers == InitDrivers /\ [][NextDrivers]_vars

-----------------------------------------------------------------------------
(* Credentials: one Tts.synthesize call up to the remote call, the API key *)
(* absent, empty or set in each of the four places getSettings looks.      *)

\* the values the API key may have in one place
ApiKeys(name) == {Null, Some(""), Some(name)}

InitCredentials ==
    /\ \E key \in ApiKeys("cli_key"), st \in {Null, Some(FALSE)},
          la \in {Null, Some(TRUE)}, im \in {Null, Some(TRUE)} :
            rawOpts = CommandLine([apiKey |-> key, streaming |-> st, last |-> la,
                                   instantMode |-> im, play |-> Some("off")])
    /\ session \in {With("apiKey", k) : k \in ApiKeys("session_key")}
    /\ globalConfig \in {With("apiKey", k) : k \in ApiKeys("global_key")}
    /\ env \in ApiKeys("env_key")
    /\ platform = "posix"
    /\ history \in {Null, Some([ids |-> <<"gen_1">>])}
    /\ resolved = Null
    /\ pc = "start"
    /\ opts = Empty
    /\ outputOpts = NoOutputOpts
    /\ tts = Null
    /\ hume = Null
    /\ error = Null
    /\ remoteCalls = << >>
    /\ player = NoPlayer
    /\ playerWrites = << >>
    /\ received = << >>
    /\ firstGenerationId = Null
    /\ generationAudio = << >>
    /\ files = << >>
    /\ response = Null
    /\ played = << >>
    /\ calls = 0
    /\ before = history
    /\ completed = history
    /\ historyReads = 0
    /\ reporterMode = Null
    /\ lastGenFile = StoredFile(history)
    /\ lastSynthesisRead = NotCalled
    /\ stdin = NoStdin
    /\ content = ""
    /\ receivedAtExit = Null

SpecCredentials == InitCredentials /\ [][NextRequest]_vars

-----------------------------------------------------------------------------
(* Utterances: one Tts.synthesize call up to the remote call, for every    *)
(* combination of voice, provider and legacy preset-voice flag.            *)

InitUtterance ==
    /\ \E vn \in {Null, Some("narrator")}, vi \in {Null, Some("voice_id_1")},
          pr \in {Null, Some("HUME_AI"), Some("CUSTOM_VOICE")},
          pv \in {Null, Some(TRUE), Some(FALSE)}, de \in {Null, Some("calm")},
          st \in {Null, Some(FALSE)} :
            rawOpts = CommandLine([voiceName |-> vn, voiceId |-> vi, provider |-> pr,
                                   presetVoice |-> pv, description |-> de,
                                   streaming |-> st, play |-> Some("off"),
                                   apiKey |-> Some("key")])
    /\ session \in {Empty, With("presetVoice", Some(TRUE)), With("voiceName", Some("sage"))}
    /\ globalConfig = Empty
    /\ env = Null
    /\ platform = "posix"
    /\ history = Null
    /\ resolved = Null
    /\ pc = "start"
    /\ opts = Empty
    /\ outputOpts = NoOutputOpts
    /\ tts = Null
    /\ hume = Null
    /\ error = Null
    /\ remoteCalls = << >>
    /\ player = NoPlayer
    /\ playerWrites = << >>
    /\ received = << >>
    /\ firstGenerationId = Null
    /\ generationAudio = << >>
    /\ files = << >>
    /\ response = Null
    /\ played = << >>
    /\ calls = 0
    /\ before = history
    /\ completed = history
    /\ historyReads = 0
    /\ reporterMode = Null
    /\ lastGenFile = StoredFile(history)
    /\ lastSynthesisRead = NotCalled
    /\ stdin = NoStdin
    /\ content = ""
    /\ receivedAtExit = Null

SpecUtterance == InitUtterance /\ [][NextRequest]_vars

-----------------------------------------------------------------------------
(* Output plans: one Tts.synthesize call up to the remote call, with an    *)
(* output file path or none and numGenerations set in any layer.           *)

InitOutputPlan ==
    /\ \E ofp \in {Null, Some("out.wav")}, ng \in {Null, Some(0), Some(2)},
          st \in {Null, Some(FALSE)} :
            rawOpts = CommandLine([outputFilePath |-> ofp, numGenerations |-> ng,
                                   streaming |-> st, play |-> Some("off"),
                                   apiKey |-> Some("key")])
    /\ session \in {With("numGenerations", n) : n \in {Null, Some(0), Some(1), Some(2), Some(3)}}
    /\ globalConfig \in {With("numGenerations", n) : n \in {Null, Some(2)}}
    /\ env = Null
    /\ platform = "posix"
    /\ history = Null
    /\ resolved = Null
    /\ pc = "start"
    /\ opts = Empty
    /\ outputOpts = NoOutputOpts
    /\ tts = Null
    /\ hume = Null
    /\ error = Null
    /\ remoteCalls = << >>
    /\ player = NoPlayer
    /\ playerWrites = << >>
    /\ received = << >>
    /\ firstGenerationId = Null
    /\ generationAudio = << >>
    /\ files = << >>
    /\ response = Null
    /\ played = << >>
    /\ calls = 0
    /\ before = history
    /\ completed = history
    /\ historyReads = 0
    /\ reporterMode = Null
    /\ lastGenFile = StoredFile(history)
    /\ lastSynthesisRead = NotCalled
    /\ stdin = NoStdin
    /\ content = ""
    /\ receivedAtExit = Null

SpecOutputPlan == InitOutputPlan /\ [][NextRequest]_vars

-----------------------------------------------------------------------------
(* Sessions: up to MaxCalls invocations of the CLI one after the other,    *)
(* each a whole Tts.synthesize call in its own process; only the stored    *)
(* history passes from one to the next.                                    *)

MaxCalls == 2

\* the ids the running call has got from the remote service: those of the
\* buffered response, or the keys of generationAudio
ProducedIds ==
    IF response # Null
    THEN [i \in 1..Len(response[1]) |-> response[1][i].generationId]
    ELSE [i \in 1..Len(generationAudio) |-> generationAudio[i].id]

SessionCommandLines ==
    {CommandLine([streaming |-> st, last |-> la[1], lastIndex |-> la[2],
                  apiKey |-> Some("key")]) :
        st \in {Null, Some(FALSE)},
        la \in {<<Null, Null>>, <<Some(TRUE), Some(1)>>, <<Some(TRUE), Some(2)>>}}

InitSessions ==
    /\ rawOpts \in SessionCommandLines
    /\ session = Empty
    /\ globalConfig = Empty
    /\ env = Null
    /\ platform = "posix"
    /\ history \in Histories
    /\ resolved = Null
    /\ pc = "start"
    /\ opts = Empty
    /\ outputOpts = NoOutputOpts
    /\ tts = Null
    /\ hume = Null
    /\ error = Null
    /\ remoteCalls = << >>
    /\ player = NoPlayer
    /\ playerWrites = << >>
    /\ received = << >>
    /\ firstGenerationId = Null
    /\ generationAudio = << >>
    /\ files = << >>
    /\ response = Null
    /\ played = << >>
    /\ calls = 0
    /\ before = history
    /\ completed = history
    /\ historyReads = 0
    /\ reporterMode = Null
    /\ lastGenFile = StoredFile(history)
    /\ lastSynthesisRead = NotCalled
    /\ stdin = NoStdin
    /\ content = ""
    /\ receivedAtExit = Null

\* the process of one invocation has ended, by return or by throw, and the
\* CLI is run again: every local starts afresh, the stored history stays
NextInvocation ==
    /\ pc \in {"done", "failed", "crashed"}
    /\ calls + 1 < MaxCalls
    /\ calls' = calls + 1
    /\ completed' = IF pc = "done" THEN Some([ids |-> ProducedIds]) ELSE completed
    /\ before' = history
    /\ historyReads' = 0
    /\ reporterMode' = Null
    /\ lastGenFile' = lastGenFile
    /\ lastSynthesisRead' = NotCalled
    /\ stdin' = NoStdin
    /\ content' = ""
    /\ receivedAtExit' = Null
    /\ rawOpts' \in SessionCommandLines
    /\ resolved' = Null
    /\ pc' = "start"
    /\ opts' = Empty
    /\ outputOpts' = NoOutputOpts
    /\ tts' = Null
    /\ hume' = Null
    /\ error' = Null
    /\ remoteCalls' = << >>
    /\ player' = NoPlayer
    /\ playerWrites' = << >>
    /\ received' = << >>
    /\ firstGenerationId' = Null
    /\ generationAudio' = << >>
    /\ files' = << >>
    /\ response' = Null
    /\ played' = << >>
    /\ UNCHANGED <<session, globalConfig, env, platform, history>>

NextSessions ==
    \/ SynthesizeStart
    \/ MaybeAddContext
    \/ ValidateAndDispatch
    \/ StreamingBegin
    \/ RemoteStreamingCall
    \/ StreamChunk
    \/ StreamThrow
    \/ StreamEnd
    \/ PlayerExits
    \/ PlayerSpawnError
    \/ WriteGenerationFile
    \/ SaveStreamedSynthesis
    \/ RemoteBufferedCall
    \/ SaveBufferedSynthesis
    \/ WriteBufferedFile
    \/ PlayAudios
    \/ PlayAudioFileClose
    \/ PlayAudioFileError
    \/ NextInvocation

SpecSessions == InitSessions /\ [][NextSessions]_vars

-----------------------------------------------------------------------------
(* Reporter modes: one Tts.synthesize call up to the remote call, with     *)
(* --json and --pretty given or not, and json and pretty set or not in the *)
(* session and in the global config.                                       *)

\* a layer with json and pretty as given
ReporterLayer(js, pr) == [Empty EXCEPT !["json"] = js, !["pretty"] = pr]

InitReporter ==
    /\ \E js \in {Null, Some(TRUE), Some(FALSE)}, pr \in {Null, Some(TRUE), Some(FALSE)},
          st \in {Null, Some(FALSE)} :
            rawOpts = CommandLine([json |-> js, pretty |-> pr, streaming |-> st,
                                   play |-> Some("off"), apiKey |-> Some("key")])
    /\ session \in {ReporterLayer(js, pr) : js \in {Null, Some(TRUE), Some(FALSE)},
                                            pr \in {Null, Some(TRUE), Some(FALSE)}}
    /\ globalConfig \in {ReporterLayer(js, pr) : js \in {Null, Some(TRUE), Some(FALSE)},
                                                 pr \in {Null, Some(TRUE), Some(FALSE)}}
    /\ env = Null
    /\ platform = "posix"
    /\ history = Null
    /\ resolved = Null
    /\ pc = "start"
    /\ opts = Empty
    /\ outputOpts = NoOutputOpts
    /\ tts = Null
    /\ hume = Null
    /\ error = Null
    /\ remoteCalls = << >>
    /\ player = NoPlayer
    /\ playerWrites = << >>
    /\ received = << >>
    /\ firstGenerationId = Null
    /\ generationAudio = << >>
    /\ files = << >>
    /\ response = Null
    /\ played = << >>
    /\ calls = 0
    /\ before = history
    /\ completed = history
    /\ historyReads = 0
    /\ reporterMode = Null
    /\ lastGenFile = StoredFile(history)
    /\ lastSynthesisRead = NotCalled
    /\ stdin = NoStdin
    /\ content = ""
    /\ receivedAtExit = Null

SpecReporter == InitReporter /\ [][NextRequest]_vars

-----------------------------------------------------------------------------
(* Text from standard input: one Tts.synthesize call whose text is '-' or  *)
(* a literal, standard input delivering any sequence of at most            *)
(* MaxStdinChunks chunks.                                                  *)

MaxStdinChunks == 2

StdinChunks == {" ", "Hi", "\n", " a b\n"}

StdinInputs == UNION {[1..n -> StdinChunks] : n \in 0..MaxStdinChunks}

InitStdin ==
    /\ \E tx \in {"-", " Hello world "}, st \in {Null, Some(FALSE)},
          key \in {Null, Some("key")} :
            rawOpts = CommandLine([text |-> Some(tx), streaming |-> st, apiKey |-> key])
    /\ session = Empty
    /\ globalConfig = Empty
    /\ env = Null
    /\ platform = "posix"
    /\ history = Null
    /\ resolved = Null
    /\ pc = "start"
    /\ opts = Empty
    /\ outputOpts = NoOutputOpts
    /\ tts = Null
    /\ hume = Null
    /\ error = Null
    /\ remoteCalls = << >>
    /\ player = NoPlayer
    /\ playerWrites = << >>
    /\ received = << >>
    /\ firstGenerationId = Null
    /\ generationAudio = << >>
    /\ files = << >>
    /\ response = Null
    /\ played = << >>
    /\ calls = 0
    /\ before = history
    /\ completed = history
    /\ historyReads = 0
    /\ reporterMode = Null
    /\ lastGenFile = StoredFile(history)
    /\ lastSynthesisRead = NotCalled
    /\ receivedAtExit = Null
    /\ \E chunks \in StdinInputs :
         stdin = [chunks |-> chunks, delivered |-> 0, ended |-> FALSE]
    /\ content = ""

NextStdin ==
    \/ SynthesizeStart
    \/ ReadStdinData
    \/ ReadStdinEnd
    \/ ReadStdinError
    \/ MaybeAddContext
    \/ ValidateAndDispatch
    \/ StreamingBegin
    \/ RemoteStreamingCall
    \/ RemoteBufferedCall

SpecStdin == InitStdin /\ [][NextStdin]_vars

-----------------------------------------------------------------------------
(* The history store on its own: records are saved and read back in any    *)
(* order, while the file may also be removed, made unreadable or cut short *)
(* from outside.                                                           *)

\* the records a call may save: up to MaxGenerations distinct ids, in any
\* order
SavedRecords ==
    UNION {{[ids |-> ids] :
              ids \in {q \in [1..n -> {HistoryIds[i] : i \in 1..Len(HistoryIds)}] :
                         \A i, j \in 1..n : q[i] = q[j] => i = j}} :
           n \in 0..MaxGenerations}

\* await saveLastSynthesisToHistory(generation)
SaveLastSynthesis ==
    /\ lastGenFile.state # "unreadable"
    /\ \E generation \in SavedRecords :
         history' = saveLastSynthesisToHistory(history, generation)
    /\ lastGenFile' = StoredFile(history')
    /\ lastSynthesisRead' = NotCalled
    /\ UNCHANGED <<inputVars, resolved, callVars, remoteCalls, streamVars, bufferedVars,
                   calls, before, completed, historyReads, reporterMode,
                   stdin, content, receivedAtExit>>

\* await getLastSynthesisFromHistory()
GetLastSynthesis ==
    /\ lastSynthesisRead' = getLastSynthesisFromHistory(lastGenFile)
    /\ UNCHANGED <<inputVars, resolved, history, callVars, remoteCalls, streamVars,
                   bufferedVars, calls, before, completed, historyReads, reporterMode,
                   lastGenFile,
                   stdin, content, receivedAtExit>>

\* the file is removed from outside: no record exists any more
FileRemoved ==
    /\ lastGenFile.state = "text"
    /\ lastGenFile' = NoFile
    /\ history' = Null
    /\ lastSynthesisRead' = NotCalled
    /\ UNCHANGED <<inputVars, resolved, callVars, remoteCalls, streamVars, bufferedVars,
                   calls, before, completed, historyReads, reporterMode,
                   stdin, content, receivedAtExit>>

\* the file or its directory loses its read permission
FileProtected ==
    /\ lastGenFile.state = "text"
    /\ lastGenFile' = UnreadableFile
    /\ history' = Null
    /\ lastSynthesisRead' = NotCalled
    /\ UNCHANGED <<inputVars, resolved, callVars, remoteCalls, streamVars, bufferedVars,
                   calls, before, completed, historyReads, reporterMode,
                   stdin, content, receivedAtExit>>

\* the file is cut short (a write that was interrupted): what is left is
\* not a JSON text
FileTruncated ==
    /\ lastGenFile.state = "text"
    /\ JSONParse(lastGenFile.text).ok
    /\ \E n \in 0..(Len(lastGenFile.text) - 1) :
         lastGenFile' = TextFile(SubSeq(lastGenFile.text, 1, n))
    /\ history' = Null
    /\ lastSynthesisRead' = NotCalled
    /\ UNCHANGED <<inputVars, resolved, callVars, remoteCalls, streamVars, bufferedVars,
                   calls, before, completed, historyReads, reporterMode,
                   stdin, content, receivedAtExit>>

InitHistory ==
    /\ rawOpts = Empty
    /\ session = Empty
    /\ globalConfig = Empty
    /\ resolved = Null
    /\ Idle

NextHistory ==
    \/ SaveLastSynthesis
    \/ GetLastSynthesis
    \/ FileRemoved
    \/ FileProtected
    \/ FileTruncated

SpecHistory == InitHistory /\ [][NextHistory]_vars

-----------------------------------------------------------------------------
(* The settings cascade on its own: three layers drawn from small sets,    *)
(* then one call of Tts.resolveOpts.                                       *)

\* the values a layer may hold for a key: absent, and two present values,
\* one of them falsy where the type has a falsy value
Domain(k) ==
    IF k \in BoolKeys THEN {Null, Some(TRUE), Some(FALSE)}
    ELSE IF k = "numGenerations" THEN {Null, Some(0), Some(2)}
    ELSE IF k = "lastIndex" THEN {Null, Some(0), Some(2)}
    ELSE IF k \in {"speed", "trailingSilence"} THEN {Null, Some(0), Some(1)}
    ELSE IF k = "play" THEN {Null, Some("first"), Some("off")}
    ELSE IF k = "format" THEN {Null, Some("mp3"), Some("pcm")}
    ELSE IF k = "provider" THEN {Null, Some("HUME_AI"), Some("CUSTOM_VOICE")}
    ELSE {Null, Some(""), Some("a")}

\* a layer holding values for at most the two keys k1 and k2
Layer(k1, v1, k2, v2) ==
    [k \in Keys |-> IF k = k1 THEN v1 ELSE IF k = k2 THEN v2 ELSE Null]

\* a truthy value of each member of the exclusive pairs
TruthyValue(k) ==
    IF k = "last" THEN Some(TRUE)
    ELSE IF k = "numGenerations" THEN Some(2)
    ELSE Some("a")

\* the layer `base` with the keys of `extra` given on top of it
WithAlso(base, extra) ==
    [k \in Keys |-> IF k \in extra /\ base[k] = Null THEN TruthyValue(k) ELSE base[k]]

PairSets == {{}} \cup {{ExclusivePairs[i][1], ExclusivePairs[i][2]} : i \in 1..Len(ExclusivePairs)}

\* The three layers vary freely over two keys k1 and k2; the command line
\* may carry one whole exclusive pair besides.
InitCascade ==
    \E k1 \in Keys, k2 \in Keys, extra \in PairSets :
        /\ rawOpts \in {WithAlso(Layer(k1, v1, k2, v2), extra) :
                            v1 \in Domain(k1), v2 \in Domain(k2)}
        /\ session \in {Layer(k1, v1, k2, v2) : v1 \in Domain(k1), v2 \in Domain(k2)}
        /\ globalConfig \in {Layer(k1, v1, k2, v2) : v1 \in Domain(k1), v2 \in Domain(k2)}
        /\ resolved = Null
        /\ Idle

ResolveOpts ==
    /\ resolved = Null
    /\ resolved' = Some(resolveOpts(globalConfig, session, rawOpts))
    /\ UNCHANGED <<inputVars, history, callVars, remoteCalls, streamVars>>
    /\ UNCHANGED <<bufferedVars, observerVars>>

NextCascade == ResolveOpts

SpecCascade == InitCascade /\ [][NextCascade]_vars

-----------------------------------------------------------------------------
(* Claims about the settings cascade (checked under SpecCascade) *)

ResolvedOk == resolved # Null /\ resolved[1].ok

\* the layer a key's cascaded value comes from: 3 command line, 2 session,
\* 1 global config, 0 none of them
LayerOf(k) ==
    IF rawOpts[k] # Null THEN 3
    ELSE IF session[k] # Null THEN 2
    ELSE IF globalConfig[k] # Null THEN 1
    ELSE 0

\* C1: every four-layer option resolves to the command-line value if it is
\* not null, else the session value if not null, else the global-config
\* value if not null, else the built-in default; a defined false, 0 or ""
\* counts as present.
C1_FourLayerCascade ==
    ResolvedOk =>
        \A k \in OsgdKeys :
            LET r == resolved[1].opts[k]
            IN  /\ rawOpts[k] # Null => r = rawOpts[k]
                /\ (rawOpts[k] = Null /\ session[k] # Null) => r = session[k]
                /\ (rawOpts[k] = Null /\ session[k] = Null /\ globalConfig[k] # Null)
                        => r = globalConfig[k]
                /\ (rawOpts[k] = Null /\ session[k] = Null /\ globalConfig[k] = Null)
                        => r = defaults[k]

\* a defined false in the session layer overrides a true of the global layer
C1_Witness ==
    /\ ResolvedOk
    /\ \E k \in BoolKeys :
          /\ rawOpts[k] = Null
          /\ session[k] = Some(FALSE)
          /\ globalConfig[k] = Some(TRUE)
          /\ resolved[1].opts[k] = Some(FALSE)

\* C2 as stated: at most one of voiceName and voiceId is non-null, and when
\* both cascade to non-null values the survivor comes from the strictly
\* higher-priority layer.
C2_Original ==
    ResolvedOk =>
        LET o == resolved[1].opts
        IN  /\ ~(o["voiceName"] # Null /\ o["voiceId"] # Null)
            /\ (LayerOf("voiceName") > 0 /\ LayerOf("voiceId") > 0) =>
                  \/ /\ LayerOf("voiceName") > LayerOf("voiceId")
                     /\ o["voiceName"] # Null
                  \/ /\ LayerOf("voiceId") > LayerOf("voiceName")
                     /\ o["voiceId"] # Null

\* the value voiceName or voiceId cascades to
Cascaded(k) ==
    IF rawOpts[k] # Null THEN rawOpts[k]
    ELSE IF session[k] # Null THEN session[k]
    ELSE globalConfig[k]

\* C2 amended: at most one of voiceName and voiceId is non-null; when both
\* cascade to non-null values from different layers the survivor is the one
\* of the higher-priority layer, and when both come from the same layer
\* voiceId survives and voiceName is dropped.
C2_VoiceSurvivor ==
    ResolvedOk =>
        LET o == resolved[1].opts
        IN  /\ ~(o["voiceName"] # Null /\ o["voiceId"] # Null)
            /\ (LayerOf("voiceName") > 0 /\ LayerOf("voiceId") > 0) =>
                  /\ LayerOf("voiceName") > LayerOf("voiceId") =>
                        o["voiceName"] = Cascaded("voiceName")
                  /\ LayerOf("voiceName") <= LayerOf("voiceId") =>
                        o["voiceId"] = Cascaded("voiceId")

\* global voiceName + session voiceName + command-line voiceId: voiceId wins
C2_Witness ==
    /\ ResolvedOk
    /\ globalConfig["voiceName"] # Null
    /\ session["voiceName"] # Null
    /\ rawOpts["voiceName"] = Null
    /\ rawOpts["voiceId"] # Null
    /\ resolved[1].opts["voiceId"] = rawOpts["voiceId"]
    /\ resolved[1].opts["voiceName"] = Null

PairIndexes == 1..Len(ExclusivePairs)

BothGiven(i) ==
    rawOpts[ExclusivePairs[i][1]] # Null /\ rawOpts[ExclusivePairs[i][2]] # Null

BothTruthy(i) ==
    /\ Truthy(ExclusivePairs[i][1], rawOpts[ExclusivePairs[i][1]])
    /\ Truthy(ExclusivePairs[i][2], rawOpts[ExclusivePairs[i][2]])

NamesGivenPair(e) ==
    \E i \in PairIndexes :
        /\ e.a = ExclusivePairs[i][1]
        /\ e.b = ExclusivePairs[i][2]
        /\ BothGiven(i)

\* C3 as stated: resolveOpts fails, naming both flags, when the raw options
\* contain both members of a pair, and succeeds when no pair is whole on the
\* command line, wherever else the other member is set.
C3_Original ==
    resolved # Null =>
        /\ (\E i \in PairIndexes : BothGiven(i)) =>
              (~resolved[1].ok /\ NamesGivenPair(resolved[1].error))
        /\ (\A i \in PairIndexes : ~BothGiven(i)) => resolved[1].ok

\* C3 amended: resolveOpts fails, naming both flags, when the raw options
\* hold a truthy value (a non-empty string, a non-zero number, true) for
\* both members of a pair; the check reads the raw options only, so it
\* succeeds whenever no pair is truthy on the command line, wherever else
\* the other member is set.
C3_RawExclusivity ==
    resolved # Null =>
        /\ (\E i \in PairIndexes : BothTruthy(i)) =>
              /\ ~resolved[1].ok
              /\ \E i \in PairIndexes :
                    /\ BothTruthy(i)
                    /\ resolved[1].error.a = ExclusivePairs[i][1]
                    /\ resolved[1].error.b = ExclusivePairs[i][2]
        /\ (\A i \in PairIndexes : ~BothTruthy(i)) => resolved[1].ok

\* a pair split across layers: voiceId on the command line, voiceName only
\* in the session, and no error
C3_Witness ==
    /\ ResolvedOk
    /\ Truthy("voiceId", rawOpts["voiceId"])
    /\ rawOpts["voiceName"] = Null
    /\ Truthy("voiceName", session["voiceName"])

\* two pairs whole on the command line: the error names one of them
C3_WitnessError ==
    /\ resolved # Null
    /\ ~resolved[1].ok
    /\ BothTruthy(1)
    /\ BothTruthy(3)
    /\ resolved[1].error.a = "voiceName"

-----------------------------------------------------------------------------
(* Claims about the request builder (checked under SpecRequest) *)

\* the call has left the request builder: it failed, or a driver has it
Dispatched == pc \in {"streaming", "buffered", "go", "stream", "bufferedCalled"}
Settled == pc = "failed" \/ Dispatched

InstantModeOn == opts["instantMode"] = Some(TRUE)

\* the three requirements of instant mode, read off the options and the
\* request
InstantModeRequirements ==
    /\ opts["streaming"] = Some(TRUE)
    /\ tts # Null
    /\ tts[1].numGenerations = 1
    /\ (tts[1].utterances[1].voice # Null \/ tts[1].context # Null)

InstantModeErrors ==
    {"instantNeedsStreaming", "instantNeedsOneGeneration", "instantNeedsVoice"}

\* C4: when instantMode resolves to true, Tts.synthesize fails without any
\* remote call unless streaming is true, the request's numGenerations is 1
\* and the request has a voice or a context; when all three hold no
\* instant-mode error is raised and the request sent is the streaming one,
\* with instantMode = true.  When instantMode is false no request carries
\* instantMode.
C4_InstantMode ==
    /\ (Settled /\ InstantModeOn /\ ~InstantModeRequirements) =>
          (pc = "failed" /\ remoteCalls = << >>)
    /\ (Settled /\ InstantModeOn /\ InstantModeRequirements) =>
          /\ pc = "failed" => error[1].kind \notin InstantModeErrors
          /\ Dispatched => (pc # "buffered" /\ pc # "bufferedCalled"
                            /\ tts[1].instantMode = Some(TRUE))
          /\ \A i \in 1..Len(remoteCalls) :
                /\ remoteCalls[i].op = "synthesizeJsonStreaming"
                /\ remoteCalls[i].request.instantMode = Some(TRUE)
          /\ pc = "stream" => Len(remoteCalls) = 1
    /\ ~InstantModeOn =>
          /\ tts # Null => tts[1].instantMode = Null
          /\ \A i \in 1..Len(remoteCalls) : remoteCalls[i].request.instantMode = Null

\* streaming, one generation and a voice name: the streaming request is sent
\* with instantMode = true
C4_Witness ==
    /\ InstantModeOn
    /\ pc = "stream"
    /\ Len(remoteCalls) = 1
    /\ remoteCalls[1].op = "synthesizeJsonStreaming"
    /\ remoteCalls[1].request.instantMode = Some(TRUE)
    /\ remoteCalls[1].request.numGenerations = 1
    /\ remoteCalls[1].request.utterances[1].voice # Null

\* maybeAddContext has run on a request and --last is what decides the
\* context: last resolved to true and no contextGenerationId was given
LastDecides ==
    /\ pc \notin {"start", "addContext"}
    /\ tts # Null
    /\ opts["last"] = Some(TRUE)
    /\ ~Truthy("contextGenerationId", opts["contextGenerationId"])

HistoryLength == IF history = Null THEN 0 ELSE Len(history[1].ids)

\* C5: with last requested, no explicit contextGenerationId and a history
\* of N ids, a lastIndex i with 1 <= i <= N makes the request context
\* history.ids[i-1] (the i-th id), and no lastIndex with N = 1 makes it
\* history.ids[0].
C5_LastIndexIsOneBased ==
    (LastDecides /\ history # Null) =>
        /\ (opts["lastIndex"] # Null /\ opts["lastIndex"][1] \in 1..HistoryLength) =>
              tts[1].context =
                 Some([generationId |-> Some(history[1].ids[opts["lastIndex"][1]])])
        /\ (opts["lastIndex"] = Null /\ HistoryLength = 1) =>
              tts[1].context = Some([generationId |-> Some(history[1].ids[1])])

\* --last --last-index 2 on a history of two ids: the request sent carries
\* the second id as its context
C5_Witness ==
    /\ LastDecides
    /\ HistoryLength = 2
    /\ opts["lastIndex"] = Some(2)
    /\ Len(remoteCalls) = 1
    /\ remoteCalls[1].request.context = Some([generationId |-> Some("gen_2")])

\* the cases of C6: no history, several ids and no index, an index outside
\* 1..N
ContinuationMustFail ==
    \/ history = Null
    \/ (HistoryLength > 1 /\ opts["lastIndex"] = Null)
    \/ (history # Null /\ opts["lastIndex"] # Null
        /\ opts["lastIndex"][1] \notin 1..HistoryLength)

\* C6: with last requested and no explicit contextGenerationId, the call
\* fails before any remote request when no history exists, when the history
\* has N > 1 ids and no lastIndex is given, and when the lastIndex given is
\* outside 1..N; the range error names N.
C6_ContinuationErrors ==
    (LastDecides /\ ContinuationMustFail) =>
        /\ pc = "failed"
        /\ remoteCalls = << >>
        /\ error[1].kind \in {"noPreviousGeneration", "lastIndexRange"}
        /\ history # Null => (error[1].kind = "lastIndexRange"
                              /\ error[1].n = HistoryLength)

-----------------------------------------------------------------------------
(* Claims about the streaming driver (checked under SpecStreaming) *)

IsEmptyChunk(chunk) == chunk.audio = Null \/ chunk.audio[1] = ""

\* the chunks received so far that carry audio, in arrival order
AudioChunks == SelectSeq(received, LAMBDA c : ~IsEmptyChunk(c))

AudioChunksOf(g) == SelectSeq(AudioChunks, LAMBDA c : c.generationId = g)

\* the decoded payloads of a sequence of chunks
RECURSIVE Decoded(_)
Decoded(chunks) ==
    IF chunks = << >> THEN << >>
    ELSE << Base64Decode(Head(chunks).audio[1]) >> \o Decoded(Tail(chunks))

RECURSIVE SumLen(_)
SumLen(entries) ==
    IF entries = << >> THEN 0 ELSE Len(Head(entries).chunks) + SumLen(Tail(entries))

\* C7: a chunk whose audio payload is empty or missing is never appended to
\* an accumulator, never piped to the player and never written to a file,
\* and it does not abort the stream: the loop goes on to the next chunk.
C7_EmptyChunksSkipped ==
    /\ [](SumLen(generationAudio) = Len(AudioChunks)
          /\ Len(playerWrites) <= Len(AudioChunks)
          /\ \A i \in 1..Len(files) :
                files[i].data = BufferConcat(Decoded(AudioChunksOf(files[i].generationId))))
    /\ [][(received' # received /\ IsEmptyChunk(received'[Len(received')])) =>
             /\ generationAudio' = generationAudio
             /\ playerWrites' = playerWrites
             /\ files' = files
             /\ pc' = "stream"
             /\ error' = Null]_vars

\* [ok, empty, ok] for one generation id: two player writes and a single
\* file holding the two non-empty chunks
C7_Witness ==
    /\ pc = "done"
    /\ received = << [generationId |-> "gen_1", audio |-> Some("YQ==")],
                     [generationId |-> "gen_1", audio |-> Some("")],
                     [generationId |-> "gen_1", audio |-> Some("Yg==")] >>
    /\ Len(playerWrites) = 2
    /\ Len(files) = 1
    /\ files[1].data = << 97, 98 >>

\* the ids of a sequence of chunks, each once, in order of first arrival
RECURSIVE FirstArrivals(_, _)
FirstArrivals(chunks, seen) ==
    IF chunks = << >> THEN << >>
    ELSE IF Head(chunks).generationId \in seen
    THEN FirstArrivals(Tail(chunks), seen)
    ELSE << Head(chunks).generationId >>
         \o FirstArrivals(Tail(chunks), seen \cup {Head(chunks).generationId})

\* the generation ids that have accumulated chunks
AccumulatedIds == FirstArrivals(AudioChunks, {})

\* C8: under a directory plan the driver writes nothing while the stream is
\* open, and after it closes exactly one file per generation id that has
\* accumulated chunks, named {dir}/{prefix}{generationId}.{format}, holding
\* the concatenation of that generation's non-empty chunks in arrival order.
C8_OneFilePerGeneration ==
    outputOpts.type = "dir" =>
        /\ pc \in {"streaming", "go", "stream", "awaitPlayer"} => files = << >>
        /\ Len(files) <= Len(AccumulatedIds)
        /\ pc = "done" => Len(files) = Len(AccumulatedIds)
        /\ \A i \in 1..Len(files) :
              /\ files[i].generationId = AccumulatedIds[i]
              /\ PathNormalize(files[i].path) =
                    PathNormalize(opts["outputDir"][1] \o "/" \o opts["prefix"][1]
                                  \o AccumulatedIds[i] \o "." \o opts["format"][1])
              /\ files[i].data = BufferConcat(Decoded(AudioChunksOf(AccumulatedIds[i])))

\* two generation ids interleaved: two files, the first holding both chunks
\* of gen_1 in arrival order
C8_Witness ==
    /\ pc = "done"
    /\ outputOpts.type = "dir"
    /\ received = << [generationId |-> "gen_1", audio |-> Some("YQ==")],
                     [generationId |-> "gen_2", audio |-> Some("YQ==")],
                     [generationId |-> "gen_1", audio |-> Some("Yg==")] >>
    /\ Len(files) = 2
    /\ files[1].path = "tts-audio/tts-gen_1.wav"
    /\ files[1].data = << 97, 98 >>
    /\ files[2].data = << 97 >>

\* C9: the buffers piped to the player are, in arrival order, every
\* non-empty chunk when play is 'all', the non-empty chunks of the first
\* generation id observed in the stream when play is 'first', and nothing,
\* with no player opened, when play is 'off'.
C9_PlayedChunks ==
    (pc \notin {"start", "failed"} \/ received # << >>) =>
        LET play == opts["play"][1]
        IN  /\ play = "all" => playerWrites = Decoded(AudioChunks)
            /\ play = "first" =>
                  playerWrites =
                     IF received = << >> THEN << >>
                     ELSE Decoded(AudioChunksOf(received[1].generationId))
            /\ play = "off" => (playerWrites = << >> /\ player = NoPlayer)

\* play 'first', the first chunk an empty one of gen_1: only the chunk of
\* gen_1 is played
C9_Witness ==
    /\ opts["play"] = Some("first")
    /\ received = << [generationId |-> "gen_1", audio |-> Some("")],
                     [generationId |-> "gen_2", audio |-> Some("YQ==")],
                     [generationId |-> "gen_1", audio |-> Some("Yg==")] >>
    /\ playerWrites = << << 98 >> >>

\* C10: the player is spawned before any chunk is written to it, and when
\* synthesize has returned or thrown, a player that was spawned has had its
\* input closed and its exit awaited: it is not left running.
C10_PlayerReleased ==
    /\ playerWrites # << >> => player.proc # "none"
    /\ (pc \in {"done", "failed"} /\ player.proc # "none") =>
          (player.stdin = "closed" /\ player.listening /\ player.proc = "exited")

-----------------------------------------------------------------------------
(* Claims about both drivers and the history store (checked under          *)
(* SpecDrivers, C13 under SpecSessions)                                    *)

RemoteFailed == pc = "failed" /\ error[1].kind = "remote"

\* C11: in both drivers, when the remote synthesis call fails (the buffered
\* call rejects, the streaming call rejects, the chunk stream throws
\* part-way) Tts.synthesize has failed with the stored history exactly what
\* it was before the call: saveLastSynthesis has not run.
C11_RemoteFailureKeepsHistory == RemoteFailed => history = before

\* the chunk stream throws after chunks of two generations have arrived,
\* with a history stored before the call
C11_Witness ==
    /\ RemoteFailed
    /\ Len(generationAudio) = 2
    /\ before # Null
    /\ Len(before[1].ids) = 2
    /\ history = before

\* C12: the history store holds a single record that is overwritten: when
\* a call has succeeded the stored ids are exactly the generation ids of
\* that call, in order, whatever record earlier calls had left; no id that
\* only an earlier call produced remains.
C12_HistoryOverwritten == pc = "done" => history = Some([ids |-> ProducedIds])

\* a call that yields only gen_2 succeeds on a history of gen_1 and gen_2:
\* gen_1 is gone
C12_Witness ==
    /\ pc = "done"
    /\ before = Some([ids |-> <<"gen_1", "gen_2">>])
    /\ ProducedIds = <<"gen_2">>
    /\ history = Some([ids |-> <<"gen_2">>])

\* the running call has sent its request with --last --last-index i, i a
\* position of the record the last successful call left
ContinuesFromCompleted ==
    /\ Len(remoteCalls) = 1
    /\ opts["last"] = Some(TRUE)
    /\ ~Truthy("contextGenerationId", opts["contextGenerationId"])
    /\ opts["lastIndex"] # Null
    /\ completed # Null
    /\ opts["lastIndex"][1] \in 1..Len(completed[1].ids)

\* C13: across invocations, a call with --last --last-index i sends as
\* context the i-th generation id recorded by the most recent synthesis that
\* completed successfully; an invocation that failed in between does not
\* change which ids --last refers to.
C13_LastRefersToCompleted ==
    /\ ContinuesFromCompleted =>
          remoteCalls[1].request.context =
             Some([generationId |-> Some(completed[1].ids[opts["lastIndex"][1]])])
    /\ (pc = "start" /\ calls > 0) => history = completed

-----------------------------------------------------------------------------
(* Claims about the buffered driver (checked under SpecBuffered) *)

\* writeFiles has returned
FilesWritten == pc \in {"play", "playing", "done"} \/ (pc = "failed" /\ played # << >>)

\* C14: in buffered mode with a directory plan, for a response of n
\* generations the driver performs exactly n file writes, one per returned
\* generation, to {dir}/{prefix}{generationId}.{format}, in the order the
\* generations were returned, each holding the decoded audio of its
\* generation.
C14_BufferedFiles ==
    outputOpts.type = "dir" =>
        /\ response = Null => files = << >>
        /\ response # Null =>
              /\ Len(files) <= Len(response[1])
              /\ FilesWritten => Len(files) = Len(response[1])
              /\ \A i \in 1..Len(files) :
                    /\ files[i].generationId = response[1][i].generationId
                    /\ PathNormalize(files[i].path) =
                          PathNormalize(opts["outputDir"][1] \o "/" \o opts["prefix"][1]
                                        \o response[1][i].generationId \o "."
                                        \o opts["format"][1])
                    /\ files[i].data = Base64Decode(response[1][i].audio)

\* a response of gen_2 then gen_1: two files, in that order
C14_Witness ==
    /\ pc = "done"
    /\ outputOpts.type = "dir"
    /\ Len(response[1]) = 2
    /\ response[1][1].generationId = "gen_2"
    /\ Len(files) = 2
    /\ files[1].path = "out/tts-gen_2.pcm"
    /\ files[2].path = "out/tts-gen_1.pcm"

-----------------------------------------------------------------------------
(* Claims about the API key (checked under SpecCredentials) *)

\* no place holds a usable API key: each is absent or empty
NoApiKey ==
    /\ ~Truthy("apiKey", rawOpts["apiKey"])
    /\ ~Truthy("apiKey", env)
    /\ ~Truthy("apiKey", session["apiKey"])
    /\ ~Truthy("apiKey", globalConfig["apiKey"])

\* the errors of the option, continuation and instant-mode validation,
\* which Tts.synthesize raises before it looks at the client
ValidationErrors ==
    {"mutuallyExclusive", "numGenerationsWithOutputFilePath", "outputDirNotSet",
     "prefixNotSet", "noPreviousGeneration", "lastIndexRange"} \cup InstantModeErrors

C16_ApiKeyFlagOverrides ==
    (pc # "start" /\ Truthy("apiKey", rawOpts["apiKey"])) =>
        hume = Some([apiKey |-> rawOpts["apiKey"][1]])

-----------------------------------------------------------------------------
(* Claims about the choice of the driver (checked under SpecDrivers) *)

\* the call has got past its remote call
ReachedNetwork ==
    pc \in {"stream", "awaitPlayer", "writeFiles", "bufferedCalled", "bufferedWrite",
            "play", "playing", "done"}

\* C17: a call that reaches the network invokes exactly one remote
\* operation, chosen by the resolved streaming flag: with streaming true
\* only the streaming operation, its request carrying stripHeaders = true;
\* with streaming false only the buffered operation, its request carrying
\* no stripHeaders.
C17_OneRemoteOperation ==
    /\ Len(remoteCalls) <= 1
    /\ ReachedNetwork => Len(remoteCalls) = 1
    /\ \A i \in 1..Len(remoteCalls) :
          IF opts["streaming"] = Some(TRUE)
          THEN /\ remoteCalls[i].op = "synthesizeJsonStreaming"
               /\ remoteCalls[i].request.stripHeaders = Some(TRUE)
          ELSE /\ opts["streaming"] = Some(FALSE)
               /\ remoteCalls[i].op = "synthesizeJson"
               /\ remoteCalls[i].request.stripHeaders = Null

\* streaming switched off in the session config only: the buffered
\* operation is the one called, once, and the call completes
C17_Witness ==
    /\ pc = "done"
    /\ rawOpts["streaming"] = Null
    /\ session["streaming"] = Some(FALSE)
    /\ Len(remoteCalls) = 1
    /\ remoteCalls[1].op = "synthesizeJson"
    /\ remoteCalls[1].request.stripHeaders = Null

-----------------------------------------------------------------------------
(* Claims about the utterance (checked under SpecUtterance) *)

\* the voice reference of the request, Null when it has none
RequestVoice == IF tts = Null THEN Null ELSE tts[1].utterances[1].voice

\* the provider the options resolve to: the explicit provider if given,
\* otherwise HUME_AI when presetVoice resolved to true, otherwise none
ResolvedProvider ==
    IF opts["provider"] # Null THEN opts["provider"]
    ELSE IF opts["presetVoice"] = Some(TRUE) THEN Some("HUME_AI")
    ELSE Null

\* C18 as stated: whenever a voice reference is built it carries the
\* resolved provider, and carries none when no provider is resolved.
C18_Original == RequestVoice # Null => RequestVoice[1].provider = ResolvedProvider

\* C18 amended: a voice reference carries provider HUME_AI exactly when the
\* resolved provider is HUME_AI (given explicitly, or implied by presetVoice
\* with no explicit provider); with an explicit CUSTOM_VOICE, which takes
\* precedence over presetVoice, or with neither set, it carries no provider.
C18_VoiceProvider ==
    RequestVoice # Null =>
        /\ ResolvedProvider = Some("HUME_AI") => RequestVoice[1].provider = Some("HUME_AI")
        /\ ResolvedProvider # Some("HUME_AI") => RequestVoice[1].provider = Null

\* --provider CUSTOM_VOICE with --preset-voice: the explicit provider wins
\* and the reference sent carries no provider
C18_Witness ==
    /\ Len(remoteCalls) = 1
    /\ opts["provider"] = Some("CUSTOM_VOICE")
    /\ opts["presetVoice"] = Some(TRUE)
    /\ remoteCalls[1].request.utterances[1].voice =
          Some([name |-> Some("narrator"), id |-> Null, provider |-> Null])

-----------------------------------------------------------------------------
(* Claims about the output plan (checked under SpecOutputPlan) *)

\* resolveOpts has returned options with an explicit output file path
PathResolved ==
    /\ pc # "start"
    /\ resolved # Null
    /\ resolved[1].ok
    /\ Truthy("outputFilePath", opts["outputFilePath"])

\* the request and the plan of a single explicit path
SinglePathRequest ==
    /\ tts # Null
    /\ tts[1].numGenerations = 1
    /\ outputOpts.type = "path"
    /\ outputOpts.path = opts["outputFilePath"][1]
    /\ \A i \in 1..Len(remoteCalls) : remoteCalls[i].request.numGenerations = 1

\* C19 as stated: whenever an explicit output file path is resolved, the
\* request built has numGenerations 1, whatever numGenerations cascaded to,
\* and the plan is that single path.
C19_Original == PathResolved => SinglePathRequest

\* C19 amended: with an explicit output file path resolved, when
\* numGenerations cascades to a value of at most 1 the request built has
\* numGenerations 1 and the plan is that single path; when it cascades to a
\* value above 1 the call fails with the error naming --num-generations and
\* --output-file-path, and no request is built or sent.
C19_OutputFilePath ==
    PathResolved =>
        IF opts["numGenerations"][1] <= 1
        THEN SinglePathRequest
        ELSE /\ pc = "failed"
             /\ error[1].kind = "numGenerationsWithOutputFilePath"
             /\ tts = Null
             /\ remoteCalls = << >>

\* --output-file-path with numGenerations 0 in the session config: the
\* request is sent with numGenerations 1
C19_Witness ==
    /\ PathResolved
    /\ session["numGenerations"] = Some(0)
    /\ opts["numGenerations"] = Some(0)
    /\ Len(remoteCalls) = 1
    /\ remoteCalls[1].request.numGenerations = 1
    /\ outputOpts.type = "path"

-----------------------------------------------------------------------------
(* Claims about the history a streaming run saves (checked under           *)
(* SpecStreaming)                                                          *)

\* the generation ids that appeared on the received chunks
ObservedIds == {received[i].generationId : i \in 1..Len(received)}

\* C20: after a streaming run completes, the history record saved contains
\* every generation id that appeared on any received chunk, each exactly
\* once, and no other id.
C20_HistoryHoldsObservedIds ==
    pc = "done" =>
        /\ history # Null
        /\ {history[1].ids[i] : i \in 1..Len(history[1].ids)} = ObservedIds
        /\ Len(history[1].ids) = Cardinality(ObservedIds)

-----------------------------------------------------------------------------
(* Claims about the order of the buffered driver (checked under            *)
(* SpecBuffered)                                                           *)

\* writeFiles has written the file of every returned generation
AllFilesWritten == response # Null /\ Len(files) = Len(response[1])

\* C21: the buffered driver works in this order: one remote call, then one
\* file write per generation, then the history record, then playback.  A
\* file is written only after the remote call has returned; the history is
\* recorded only once every output file is written and before any playback;
\* a file is played only after the history has been recorded.
C21_BufferedOrder ==
    [][/\ files' # files => (Len(remoteCalls) = 1 /\ response # Null /\ played = << >>)
       /\ history' # history => (AllFilesWritten /\ played = << >>)
       /\ played' # played => (AllFilesWritten /\ history = Some([ids |-> ProducedIds]))]_vars

-----------------------------------------------------------------------------
(* Claims about the two-layer cascade (checked under SpecCascade) *)

\* the value of a two-layer key: the command-line value if given, otherwise
\* the built-in default
CliOrDefault(k) == IF rawOpts[k] # Null THEN rawOpts[k] ELSE defaults[k]

\* C22: the resolved contextGenerationId and outputFilePath depend on the
\* command-line options only: resolveOpts returns the command-line value if
\* given, otherwise the built-in default, whatever the session and the
\* global config hold for them.
C22_TwoLayerCascade ==
    ResolvedOk => \A k \in OdKeys : resolved[1].opts[k] = CliOrDefault(k)

\* an output file path in the session and a context id in the global
\* config, none on the command line: both resolve to their defaults
C22_Witness ==
    /\ ResolvedOk
    /\ rawOpts["outputFilePath"] = Null
    /\ rawOpts["contextGenerationId"] = Null
    /\ Truthy("outputFilePath", session["outputFilePath"])
    /\ Truthy("contextGenerationId", globalConfig["contextGenerationId"])
    /\ resolved[1].opts["outputFilePath"] = defaults["outputFilePath"]
    /\ resolved[1].opts["contextGenerationId"] = Null

-----------------------------------------------------------------------------
(* Claims about the playback of the buffered driver (checked under         *)
(* SpecBuffered)                                                           *)

\* the paths playAudios has to play, in order, once the files are written
PathsToPlay ==
    IF opts["play"] = Some("off") THEN << >>
    ELSE IF opts["play"] = Some("first") THEN << files[1].path >>
    ELSE [i \in 1..Len(files) |-> files[i].path]

C24_WitnessFirst ==
    /\ pc = "done"
    /\ opts["play"] = Some("first")
    /\ Len(files) = 2
    /\ played = << [path |-> files[1].path, code |-> Some(0)] >>

-----------------------------------------------------------------------------
(* Claims about the continuation context (checked under SpecRequest) *)

\* maybeAddContext has set the request context from --last
ContextFromLast ==
    /\ tts # Null
    /\ tts[1].context # Null
    /\ Truthy("last", opts["last"])
    /\ ~Truthy("contextGenerationId", opts["contextGenerationId"])

\* C29: whenever maybeAddContext sets the request context from --last, for
\* any history and any lastIndex (0, negative, a history with no ids), the
\* context generationId is an element of history.ids; it is never undefined
\* nor an id absent from the history.
C29_ContextIdInHistory ==
    ContextFromLast =>
        /\ history # Null
        /\ \E i \in 1..Len(history[1].ids) :
              tts[1].context[1].generationId = Some(history[1].ids[i])

\* a contextGenerationId on the command line while last resolves to true
\* from the session or the global config
ExplicitContextOverLast ==
    /\ Truthy("contextGenerationId", rawOpts["contextGenerationId"])
    /\ rawOpts["last"] = Null
    /\ (Truthy("last", session["last"])
        \/ (session["last"] = Null /\ Truthy("last", globalConfig["last"])))

\* the errors maybeAddContext raises for a continuation from the history
ContinuationErrors == {"noPreviousGeneration", "lastIndexRange"}

\* C23: an explicit contextGenerationId wins over continue-from-last: with
\* a (non-empty) contextGenerationId on the command line and last resolved
\* to true from the session or the global config, the request context is
\* the explicit id, the history store is never read, and no continuation
\* error is raised, whatever the history holds.
C23_ExplicitContextWins ==
    ExplicitContextOverLast =>
        /\ historyReads = 0
        /\ pc = "failed" => error[1].kind \notin ContinuationErrors
        /\ (pc \notin {"start", "addContext"} /\ tts # Null) =>
              tts[1].context = Some([generationId |-> rawOpts["contextGenerationId"]])
        /\ \A i \in 1..Len(remoteCalls) :
              remoteCalls[i].request.context =
                 Some([generationId |-> rawOpts["contextGenerationId"]])

\* --continue ctx_1 with last set in the session and no history at all: the
\* request is sent with context ctx_1 and the store was not read
C23_Witness ==
    /\ ExplicitContextOverLast
    /\ session["last"] = Some(TRUE)
    /\ opts["last"] = Some(TRUE)
    /\ history = Null
    /\ historyReads = 0
    /\ Len(remoteCalls) = 1
    /\ remoteCalls[1].request.context = Some([generationId |-> Some("ctx_1")])

\* last decides and the store is read once
C23_WitnessRead ==
    /\ ContextFromLast
    /\ historyReads = 1
    /\ Len(remoteCalls) = 1

-----------------------------------------------------------------------------
(* Claims about the reporter mode (checked under SpecReporter) *)

\* the mode a layer asks for: json or pretty when exactly one of the two is
\* set to true in it, Null when it sets neither (or both)
RequestedMode(layer) ==
    IF Truthy("json", layer["json"]) /\ ~Truthy("pretty", layer["pretty"])
    THEN Some("json")
    ELSE IF Truthy("pretty", layer["pretty"]) /\ ~Truthy("json", layer["json"])
    THEN Some("pretty")
    ELSE Null

\* the layer asks for no mode
NoModeRequested(layer) ==
    ~Truthy("json", layer["json"]) /\ ~Truthy("pretty", layer["pretty"])

\* C28: getSettings chooses the reporter mode with priority command line >
\* session config > global config: a mode asked for on the command line
\* (--json or --pretty) is the mode, whatever the session and the global
\* config say; with none on the command line a mode set in the session is
\* the mode, whatever the global config says; with none in either, the
\* global config decides.
C28_ReporterModePriority ==
    reporterMode # Null =>
        /\ RequestedMode(rawOpts) # Null => reporterMode = RequestedMode(rawOpts)
        /\ (NoModeRequested(rawOpts) /\ RequestedMode(session) # Null) =>
              reporterMode = RequestedMode(session)
        /\ (NoModeRequested(rawOpts) /\ NoModeRequested(session)
            /\ RequestedMode(globalConfig) # Null) =>
              reporterMode = RequestedMode(globalConfig)

-----------------------------------------------------------------------------
(* Claims about the history store (checked under SpecHistory) *)

\* C25: getLastSynthesisFromHistory never fails: it returns null when no
\* history record exists or the file cannot be read (or holds no JSON
\* text), and otherwise it returns the record written by the most recent
\* saveLastSynthesisToHistory.
C25_GetNeverFails ==
    lastSynthesisRead.called =>
        /\ ~lastSynthesisRead.threw
        /\ lastSynthesisRead.value = history
        /\ (lastGenFile.state # "text" \/ ~JSONParse(lastGenFile.text).ok) =>
              lastSynthesisRead.value = Null

\* a record of two ids is read back as it was saved
C25_Witness ==
    /\ lastSynthesisRead.called
    /\ lastSynthesisRead.value = Some([ids |-> <<"gen_2", "gen_3">>])
    /\ history = Some([ids |-> <<"gen_2", "gen_3">>])

\* the file has been made unreadable after a save: null is returned
C25_WitnessUnreadable ==
    /\ lastSynthesisRead.called
    /\ lastGenFile.state = "unreadable"
    /\ lastSynthesisRead = [called |-> TRUE, threw |-> FALSE, value |-> Null]

-----------------------------------------------------------------------------
(* Claims about text from standard input (checked under SpecStdin) *)

\* the chunks of standard input, concatenated in arrival order
RECURSIVE StdinText(_)
StdinText(chunks) ==
    IF chunks = << >> THEN "" ELSE Head(chunks) \o StdinText(Tail(chunks))

AllWhiteSpace(s) == \A i \in 1..Len(s) : IsWhiteSpace(SubSeq(s, i, i))

\* t is s without the white space around it: s is white space, t, white
\* space, and t neither starts nor ends with white space
IsTrimmed(t, s) ==
    /\ \E i, j \in 0..Len(s) :
         /\ i <= j
         /\ AllWhiteSpace(SubSeq(s, 1, i))
         /\ t = SubSeq(s, i + 1, j)
         /\ AllWhiteSpace(SubSeq(s, j + 1, Len(s)))
    /\ Len(t) > 0 =>
         /\ ~IsWhiteSpace(SubSeq(t, 1, 1))
         /\ ~IsWhiteSpace(SubSeq(t, Len(t), Len(t)))

\* C26: when the text argument is '-', no remote request is sent until
\* standard input has ended (all its chunks delivered), and the utterance
\* text of the request is the concatenation of all chunks of standard
\* input, in arrival order, with the surrounding white space trimmed.
C26_TextFromStdin ==
    rawOpts["text"] = Some("-") =>
        /\ remoteCalls # << >> =>
              stdin.ended /\ stdin.delivered = Len(stdin.chunks)
        /\ \A i \in 1..Len(remoteCalls) :
              LET text == remoteCalls[i].request.utterances[1].text
              IN  text # Null /\ IsTrimmed(text[1], StdinText(stdin.chunks))

\* two chunks with white space before, between and after the words are
\* sent as one trimmed text
C26_Witness ==
    /\ rawOpts["text"] = Some("-")
    /\ stdin.chunks = <<"\n", " a b\n">>
    /\ Len(remoteCalls) = 1
    /\ remoteCalls[1].request.utterances[1].text = Some("a b")

\* a literal text is sent as given
C26_WitnessLiteral ==
    /\ rawOpts["text"] = Some(" Hello world ")
    /\ Len(remoteCalls) = 1
    /\ remoteCalls[1].request.utterances[1].text = Some(" Hello world ")

-----------------------------------------------------------------------------
(* Claims about the audio player in both drivers (checked under            *)
(* SpecDrivers)                                                            *)

\* a player of this call could not be started or has exited with a
\* non-zero code
PlayerBroke ==
    \/ player.code # Null /\ player.code # Some(0)
    \/ \E i \in 1..Len(played) : played[i].code # Null /\ played[i].code # Some(0)

\* the call is over without success: synthesize threw, or the Node process
\* was ended by an uncaught error
EndedInFailure == pc \in {"failed", "crashed"}

\* C27: if the audio player cannot be started or exits with a non-zero
\* code, at any moment, chunks still being streamed to it or not, the call
\* ends as a failure in both drivers: it has not reported success, and
\* either it has failed or it still has a step to take (it is not left
\* waiting for an event that cannot come).
C27_PlayerFailureFails ==
    PlayerBroke =>
        /\ pc # "done"
        /\ EndedInFailure \/ ENABLED NextDrivers

-----------------------------------------------------------------------------
(* Claims about live playback in the streaming driver (checked under       *)
(* SpecStreaming)                                                          *)

\* the call streams and plays what it receives
LivePlayback ==
    /\ Truthy("streaming", opts["streaming"])
    /\ opts["play"] # Null
    /\ opts["play"] # Some("off")

\* the chunk stream has closed
StreamClosed == pc \in {"awaitPlayer", "writeFiles", "done"} \/ player.listening

\* the player exited with a non-zero code when every chunk of the stream
\* had been received
ExitedNonZeroAfterLastChunk ==
    /\ pc \notin {"go", "stream"}
    /\ player.code # Null
    /\ player.code[1] \in ExitCodes \ {0}
    /\ receivedAtExit = Some(Len(received))

\* C30: in streaming mode with play other than 'off', no output file is
\* written and no history is recorded until the chunk stream has closed and
\* the player has exited with code 0; and when the player exits with a
\* non-zero code after all chunks were received, synthesize fails, with no
\* output file written and the history unchanged.
C30_LivePlaybackFirst ==
    LivePlayback =>
        /\ (files # << >> \/ history # before) =>
              (StreamClosed /\ player.code = Some(0))
        /\ ExitedNonZeroAfterLastChunk =>
              (pc = "failed" /\ files = << >> /\ history = before)

====
